---- MODULE Spec2Model ----
(***************************************************************************)
(* Verification model of the tic-tac-toe neuro-evolution repository:       *)
(*   - Board            (src/src/board.py)                                 *)
(*   - MinimaxPlayer    (src/src/minimax_player.py)                        *)
(*   - network move selection (src/src/neural_network.py, src/src/genetic.py,*)
(*     src/alt/core/mlp.py, src/src/genetic_algorithm/ga.py)               *)
(*   - GeneticAlgorithm (src/src/genetic_algorithm.py): evolve and the     *)
(*     fitness evaluation _calculate_fitness                               *)
(*   - the alt GeneticAlgorithm (src/alt/core/genetic_algorithm.py)        *)
(*   - ga_run (src/src/genetic.py), the weight decoders, the convergence   *)
(*     test of src/src/genetic_algorithm/ga.py                             *)
(* Each component has its own specification (SpecBoard, SpecMoves,         *)
(* SpecGame, SpecSearch, SpecNet, SpecGA, SpecElite, SpecAlt, SpecFitness, *)
(* SpecTrain, SpecGenetic, SpecDecode, SpecConverge, SpecTorneio,          *)
(* SpecPartida, SpecRun, SpecQuick); a specification holds the variables   *)
(* of the other components constant.                                       *)
(***************************************************************************)
EXTENDS Integers, Sequences, FiniteSets, TLC

VARIABLES
    game,       \* the Board object: [board, current_winner]
    last,       \* record of the last call made on the component
    side,       \* SpecGame: the symbol played by the minimax player
    turn,       \* SpecGame / SpecSearch: the symbol whose turn it is
    pc,         \* SpecSearch: "idle" before choose_move, "chosen" after it
    tabuleiro,  \* SpecNet: flat board, 9 cells in {-1, 0, 1}
    net,        \* SpecNet: the weights of the network; SpecDecode: its blocks
    sel,        \* SpecNet: result of the last move selection of each variant
    ga          \* the GeneticAlgorithm object (or run) and its call status

vars == <<game, last, side, turn, pc, tabuleiro, net, sel, ga>>

(***************************************************************************)
(* Program constants (src/src/config.py) and Python values.                *)
(***************************************************************************)
NN_PLAYER_SYMBOL == "X"
OPPONENT_PLAYER_SYMBOL == "O"
EMPTY_CELL == " "
Symbols == {NN_PLAYER_SYMBOL, OPPONENT_PLAYER_SYMBOL}

None == "None"      \* Python None as the value of current_winner
NoMove == <<>>      \* Python None as a move / position
Inf == 1000         \* math.inf: larger than any score the search returns

Idx == 0 .. 2       \* range(3)

\* Coordinates offered to the Board API: the legal ones plus one below and
\* one above the legal range.
Coord == -1 .. 3
Moves == {<<r, c>> : r \in Idx, c \in Idx}
OutOfRange == {<<r, c>> : r \in Coord, c \in Coord} \ Moves
AnyMove == Moves \cup OutOfRange \cup {NoMove}

(***************************************************************************)
(* Board (src/src/board.py).  A Board value is a record                    *)
(* [board |-> 3x3 grid, current_winner |-> symbol or None].                *)
(***************************************************************************)
reset == [board |-> [r \in Idx |-> [c \in Idx |-> EMPTY_CELL]],
          current_winner |-> None]

\* The cells in the order of the nested comprehension "for r ... for c ...".
RowMajor == << <<0, 0>>, <<0, 1>>, <<0, 2>>,
               <<1, 0>>, <<1, 1>>, <<1, 2>>,
               <<2, 0>>, <<2, 1>>, <<2, 2>> >>

get_valid_moves(g) ==
    SelectSeq(RowMajor, LAMBDA m : g.board[m[1]][m[2]] = EMPTY_CELL)

is_move_valid_occupied_ok(g, move) ==
    ~(move = NoMove \/ ~(move[1] \in Idx /\ move[2] \in Idx))

is_move_valid(g, move) ==
    IF move = NoMove \/ ~(move[1] \in Idx /\ move[2] \in Idx)
    THEN FALSE
    ELSE g.board[move[1]][move[2]] = EMPTY_CELL

check_winner_no_antidiagonal(g, symbol) ==
    \/ \E i \in Idx : \/ \A j \in Idx : g.board[i][j] = symbol
                      \/ \A j \in Idx : g.board[j][i] = symbol
    \/ \A i \in Idx : g.board[i][i] = symbol

check_winner(g, symbol) ==
    \/ \E i \in Idx : \/ \A j \in Idx : g.board[i][j] = symbol
                      \/ \A j \in Idx : g.board[j][i] = symbol
    \/ \A i \in Idx : g.board[i][i] = symbol
    \/ \A i \in Idx : g.board[i][2 - i] = symbol

\* make_move returns a bool and mutates the board: [game, ok].
make_move(g, move, symbol) ==
    IF is_move_valid(g, move)
    THEN LET g1 == [g EXCEPT !.board[move[1]][move[2]] = symbol]
         IN  [game |-> IF check_winner(g1, symbol)
                       THEN [g1 EXCEPT !.current_winner = symbol]
                       ELSE g1,
              ok |-> TRUE]
    ELSE [game |-> g, ok |-> FALSE]

undo_move(g, move) ==
    [board |-> [g.board EXCEPT ![move[1]][move[2]] = EMPTY_CELL],
     current_winner |-> None]

is_draw(g) == g.current_winner = None /\ get_valid_moves(g) = <<>>

is_game_over(g) == g.current_winner # None \/ get_valid_moves(g) = <<>>

(***************************************************************************)
(* MinimaxPlayer (src/src/minimax_player.py).  The search mutates the      *)
(* Board in place, so every operator takes the Board and returns it again  *)
(* in the field "game" next to the Python return value.                    *)
(***************************************************************************)
OtherPlayer(p) ==
    IF p = NN_PLAYER_SYMBOL THEN OPPONENT_PLAYER_SYMBOL ELSE NN_PLAYER_SYMBOL

\* Lines 36-41: the score of a position won by other_player.
terminal_score_flat(g, other_player) ==
    IF other_player = NN_PLAYER_SYMBOL THEN 1 ELSE -1

terminal_score_sign_flipped(g, other_player) ==
    LET score == Len(get_valid_moves(g)) + 1
    IN  IF other_player = NN_PLAYER_SYMBOL THEN -score ELSE score

terminal_score(g, other_player) ==
    LET score == Len(get_valid_moves(g)) + 1
    IN  IF other_player = NN_PLAYER_SYMBOL THEN score ELSE -score

RECURSIVE minimax(_, _)

\* Lines 50-67: one iteration of "for possible_move in get_valid_moves()".
\* best is [position, score, game]: the best result so far and the Board as
\* the previous iteration left it.
minimax_iteration_last_best(best, possible_move, player_symbol) ==
    LET made == make_move(best.game, possible_move, player_symbol).game
        sim_score == minimax(made, OtherPlayer(player_symbol))
        undone == undo_move(sim_score.game, possible_move)
        better == IF player_symbol = NN_PLAYER_SYMBOL
                  THEN sim_score.score >= best.score
                  ELSE sim_score.score <= best.score
    IN  [position |-> IF better THEN possible_move ELSE best.position,
         score |-> IF better THEN sim_score.score ELSE best.score,
         game |-> undone]

minimax_iteration_no_undo(best, possible_move, player_symbol) ==
    LET made == make_move(best.game, possible_move, player_symbol).game
        sim_score == minimax(made, OtherPlayer(player_symbol))
        better == IF player_symbol = NN_PLAYER_SYMBOL
                  THEN sim_score.score > best.score
                  ELSE sim_score.score < best.score
    IN  [position |-> IF better THEN possible_move ELSE best.position,
         score |-> IF better THEN sim_score.score ELSE best.score,
         game |-> sim_score.game]

minimax_iteration(best, possible_move, player_symbol) ==
    LET made == make_move(best.game, possible_move, player_symbol).game
        sim_score == minimax(made, OtherPlayer(player_symbol))
        undone == undo_move(sim_score.game, possible_move)
        better == IF player_symbol = NN_PLAYER_SYMBOL
                  THEN sim_score.score > best.score
                  ELSE sim_score.score < best.score
    IN  [position |-> IF better THEN possible_move ELSE best.position,
         score |-> IF better THEN sim_score.score ELSE best.score,
         game |-> undone]

\* The for loop over the list of valid moves computed when the loop starts
\* (at most nine).  The iterations run in list order, each on the result of
\* the one before it; the result of the loop is that of the last iteration.
minimax_loop(best, moves, player_symbol) ==
    LET i1 == minimax_iteration(best, moves[1], player_symbol)
        i2 == minimax_iteration(i1, moves[2], player_symbol)
        i3 == minimax_iteration(i2, moves[3], player_symbol)
        i4 == minimax_iteration(i3, moves[4], player_symbol)
        i5 == minimax_iteration(i4, moves[5], player_symbol)
        i6 == minimax_iteration(i5, moves[6], player_symbol)
        i7 == minimax_iteration(i6, moves[7], player_symbol)
        i8 == minimax_iteration(i7, moves[8], player_symbol)
        i9 == minimax_iteration(i8, moves[9], player_symbol)
    IN  CASE Len(moves) = 1 -> <<i1>>[1]
          [] Len(moves) = 2 -> <<i1, i2>>[2]
          [] Len(moves) = 3 -> <<i1, i2, i3>>[3]
          [] Len(moves) = 4 -> <<i1, i2, i3, i4>>[4]
          [] Len(moves) = 5 -> <<i1, i2, i3, i4, i5>>[5]
          [] Len(moves) = 6 -> <<i1, i2, i3, i4, i5, i6>>[6]
          [] Len(moves) = 7 -> <<i1, i2, i3, i4, i5, i6, i7>>[7]
          [] Len(moves) = 8 -> <<i1, i2, i3, i4, i5, i6, i7, i8>>[8]
          [] Len(moves) = 9 -> <<i1, i2, i3, i4, i5, i6, i7, i8, i9>>[9]

minimax(state_game, player_symbol) ==
    LET max_player == NN_PLAYER_SYMBOL
        other_player == IF player_symbol = max_player
                        THEN OPPONENT_PLAYER_SYMBOL ELSE NN_PLAYER_SYMBOL
        valid_moves == get_valid_moves(state_game)
    IN  IF state_game.current_winner = other_player
        THEN [position |-> NoMove,
              score |-> terminal_score(state_game, other_player),
              game |-> state_game]
        ELSE IF valid_moves = <<>>
        THEN [position |-> NoMove, score |-> 0, game |-> state_game]
        ELSE minimax_loop([position |-> NoMove,
                           score |-> IF player_symbol = max_player
                                     THEN -Inf ELSE Inf,
                           game |-> state_game],
                          valid_moves, player_symbol)

Difficulties == {"hard", "medium"}

\* choose_move(game, player_symbol).  use_minimax is the outcome of
\* "random.random() < 0.50" and pick the index drawn by random.choice; both
\* are read in "medium" mode only.  Returns [position, game].
choose_move(g, player_symbol, difficulty, use_minimax, pick) ==
    LET valid_moves == get_valid_moves(g)
    IN  IF valid_moves = <<>>
        THEN [position |-> NoMove, game |-> g]
        ELSE IF difficulty = "hard" \/ use_minimax
        THEN LET r == minimax(g, player_symbol)
             IN  [position |-> r.position, game |-> r.game]
        ELSE [position |-> valid_moves[pick], game |-> g]

(***************************************************************************)
(* Network move selection.  A board is a flat vector of nine cells with    *)
(* 1 = X (the network), -1 = O, 0 = empty.  The networks considered are    *)
(* the "diagonal" ones: W1 = w1*I, b1 = 0, W2 = w2*I and output biases b2, *)
(* with w1 so large that tanh saturates, so that the forward pass is exact *)
(* integer arithmetic: net = [w1, w2, b2].                                 *)
(***************************************************************************)
Cells == 0 .. 8
NegInf == -1000     \* -np.inf / float('-inf')
Sat == 32           \* tanh(x) = 1.0 in float64 for x >= Sat
MaxBias == 2        \* the output bias of the raised cell

isneginf(x) == x = NegInf

\* IEEE addition restricted to integers and -inf.
AddInf(a, b) == IF isneginf(a) \/ isneginf(b) THEN NegInf ELSE a + b

\* np.tanh on the saturated or zero pre-activations of a diagonal network.
tanh(z) == IF z >= Sat THEN 1 ELSE IF z <= -Sat THEN -1 ELSE 0

\* max(0, x) and np.maximum(0, x).
relu(x) == IF x > 0 THEN x ELSE 0

\* np.argmax: the first index holding the maximum.
argmax(v) ==
    CHOOSE i \in Cells : /\ \A j \in Cells : v[j] <= v[i]
                         /\ \A j \in Cells : j < i => v[j] < v[i]

\* [i for i, val in enumerate(cells) if val == 0], in increasing order.
legal_moves(cells) ==
    SelectSeq(<<0, 1, 2, 3, 4, 5, 6, 7, 8>>, LAMBDA i : cells[i] = 0)

IndexResult(i) == [kind |-> "index", value |-> i]
NoneResult == [kind |-> "none", value |-> 0]
RaiseResult == [kind |-> "raise", value |-> 0]

\* RedeNeuralMLP.propagacao and the forward pass of Net.policy:
\* tanh(x @ W1 + b1) @ W2 + b2.
propagacao(entrada, n) ==
    [i \in Cells |-> AddInf(tanh(entrada[i] * n.w1) * n.w2, n.b2[i])]

\* np.where(tabuleiro == 0, scores, -np.inf)
mascarar(cells, scores) ==
    [i \in Cells |-> IF cells[i] = 0 THEN scores[i] ELSE NegInf]

\* RedeNeuralMLP.escolher_jogada; pick is the draw of np.random.choice.
escolher_jogada_unmasked(tab, n, pick) ==
    IndexResult(argmax(propagacao(tab, n)))

escolher_jogada(tab, n, pick) ==
    LET scores == propagacao(tab, n)
        scores_mascarados == mascarar(tab, scores)
        posicoes_livres == legal_moves(tab)
    IN  IF \A i \in Cells : isneginf(scores_mascarados[i])
        THEN IF posicoes_livres # <<>>
             THEN IndexResult(posicoes_livres[pick])
             ELSE IndexResult(0)
        ELSE IndexResult(argmax(scores_mascarados))

\* Net.policy; pick is the draw of random.choice, which raises IndexError on
\* an empty list.
policy(cells, n, pick) ==
    LET y == propagacao(cells, n)
        y_masked == mascarar(cells, y)
    IN  IF \A i \in Cells : isneginf(y_masked[i])
        THEN IF legal_moves(cells) = <<>>
             THEN RaiseResult
             ELSE IndexResult(legal_moves(cells)[pick])
        ELSE IndexResult(argmax(y_masked))

\* alt MLP.feedforward and the forward_propagation of
\* src/src/neural_network/mlp.py: both layers apply relu to
\* bias + weights . inputs.
feedforward(entrada, n) ==
    [i \in Cells |-> relu(AddInf(relu(entrada[i] * n.w1) * n.w2, n.b2[i]))]

\* alt MLP.choose_move
MLP_choose_move(tab, n) ==
    LET saida == feedforward(tab, n)
        livres == {i \in Cells : tab[i] = 0}
        scores == [i \in Cells |-> IF i \in livres THEN saida[i] ELSE NegInf]
    IN  IF livres = {} THEN NoneResult ELSE IndexResult(argmax(scores))

\* np.argsort(outputs)[::-1]: j stands before i in the list of indices by
\* decreasing output.  The order of equal outputs is not fixed by the default
\* sort kind: stable says whether the sort kept equal outputs in index order
\* before the reversal.
sorted_before(outputs, stable, j, i) ==
    \/ outputs[j] > outputs[i]
    \/ outputs[j] = outputs[i] /\ j # i /\ (IF stable THEN j > i ELSE j < i)

\* The value of EMPTY_CELL in the configuration of the ga.py variant.
GA_EMPTY_CELL == 0

\* nn_make_move_decision_for_game in ga.calculate_fitness: returns (r, c) of
\* the first index of the sorted list whose cell is empty, or (-1, -1).
nn_make_move_decision_for_game(board_state_flat, n, stable) ==
    LET outputs == feedforward(board_state_flat, n)
        hits == {i \in Cells : board_state_flat[i] = GA_EMPTY_CELL}
    IN  IF hits = {}
        THEN <<-1, -1>>
        ELSE LET idx == CHOOSE i \in hits : \A j \in hits :
                            ~sorted_before(outputs, stable, j, i)
             IN  <<idx \div 3, idx % 3>>

\* Board.winner of src/src/genetic.py: <<1>>, <<-1>>, <<0>> (draw) or <<>>
\* (None, the game continues).
LINES == << <<0, 1, 2>>, <<3, 4, 5>>, <<6, 7, 8>>,
            <<0, 3, 6>>, <<1, 4, 7>>, <<2, 5, 8>>,
            <<0, 4, 8>>, <<2, 4, 6>> >>

LineSum(cells, k) ==
    cells[LINES[k][1]] + cells[LINES[k][2]] + cells[LINES[k][3]]

\* The loop returns at the first line whose sum is 3 or -3.
winner(cells) ==
    LET decided == {k \in 1 .. 8 : LineSum(cells, k) \in {3, -3}}
    IN  IF decided # {}
        THEN LET k == CHOOSE d \in decided : \A e \in decided : d <= e
             IN  IF LineSum(cells, k) = 3 THEN <<1>> ELSE <<-1>>
        ELSE IF legal_moves(cells) = <<>> THEN <<0>> ELSE <<>>

(***************************************************************************)
(* GeneticAlgorithm of src/src/genetic_algorithm.py.  A chromosome is a     *)
(* sequence of chromosome_length genes on a grid of the weight range, a    *)
(* population a sequence of chromosomes.  The fitness of each individual   *)
(* (the outcome of its games) and the random draws are inputs of evolve.   *)
(***************************************************************************)
tournament_size == 5

Genes == {-1, 0}
FitnessVals == {0, 1}
Noise == {-1, 0, 1}
MaxPop == 6         \* the population sizes are 0 .. MaxPop

Chromosomes(chromosome_length) == [1 .. chromosome_length -> Genes]

\* _create_initial_population: population_size random chromosomes.
create_initial_population(population_size, chromosome_length) ==
    [1 .. population_size -> Chromosomes(chromosome_length)]

\* pop_with_fitness.sort(key=lambda x: x[1], reverse=True): a stable sort,
\* the individuals of the greatest fitness first, equal fitness in the order
\* of the population.
RECURSIVE sort_descending(_, _)
sort_descending(pop_with_fitness, keys) ==
    IF keys = {}
    THEN <<>>
    ELSE LET top == CHOOSE k \in keys : \A other \in keys : other <= k
         IN  SelectSeq(pop_with_fitness, LAMBDA x : x[2] = top)
                 \o sort_descending(pop_with_fitness, keys \ {top})

sort_by_fitness(pop_with_fitness) ==
    sort_descending(pop_with_fitness,
                    {pop_with_fitness[i][2] : i \in 1 .. Len(pop_with_fitness)})

\* One tournament of _selection: random.sample draws tournament_size distinct
\* positions in any order, max returns the first participant of greatest
\* fitness.  The set of the chromosomes a tournament can return.
tournament_winners(pop_with_fitness) ==
    LET n == Len(pop_with_fitness)
        samples == {S \in SUBSET (1 .. n) : Cardinality(S) = tournament_size}
    IN  {pop_with_fitness[i][1] :
            i \in {w \in 1 .. n :
                    \E S \in samples :
                        /\ w \in S
                        /\ \A j \in S :
                              pop_with_fitness[j][2] <= pop_with_fitness[w][2]}}

\* _crossover with alpha = alpha2 / 2, when the children stay on the grid.
crossover_on_grid(parent1, parent2, alpha2) ==
    \A i \in 1 .. Len(parent1) :
        (parent1[i] * alpha2 + parent2[i] * (2 - alpha2)) % 2 = 0

crossover(parent1, parent2, crossed, alpha2) ==
    IF ~crossed
    THEN <<parent1, parent2>>
    ELSE << [i \in 1 .. Len(parent1) |->
                (parent1[i] * alpha2 + parent2[i] * (2 - alpha2)) \div 2],
            [i \in 1 .. Len(parent1) |->
                (parent2[i] * alpha2 + parent1[i] * (2 - alpha2)) \div 2] >>

\* _mutate: noise[i] is added to gene i (0 when the gene is not mutated).
mutate(chromosome, noise) ==
    [i \in 1 .. Len(chromosome) |-> chromosome[i] + noise[i]]

\* The pairs (mutated child1, mutated child2) that one pass of the loop body
\* can produce: two tournaments, _crossover, two calls of _mutate.
child_pairs(pop_with_fitness) ==
    LET winners == tournament_winners(pop_with_fitness)
        crossed_pairs ==
            UNION {{crossover(parents[1], parents[2], crossed, alpha2) :
                        crossed \in BOOLEAN,
                        alpha2 \in {a \in {0, 1} :
                            crossover_on_grid(parents[1], parents[2], a)}} :
                    parents \in winners \X winners}
        mutations(c) ==
            {mutate(c, noise) : noise \in [1 .. Len(c) -> Noise]}
                \cap Chromosomes(Len(c))
    IN  UNION {mutations(cp[1]) \X mutations(cp[2]) : cp \in crossed_pairs}

\* The body of the while loop of evolve for one pair of mutated children:
\* child1 is appended, child2 only while the generation is not complete.
loop_body_always_both(next_generation, pair, population_size) ==
    Append(Append(next_generation, pair[1]), pair[2])

loop_body(next_generation, pair, population_size) ==
    LET with_child1 == Append(next_generation, pair[1])
    IN  IF Len(with_child1) < population_size
        THEN Append(with_child1, pair[2])
        ELSE with_child1

\* "while len(next_generation) < self.population_size": the set of the
\* generations the loop can end with, from a set of partial generations.
RECURSIVE while_loop(_, _, _)
while_loop(partial, pairs, population_size) ==
    LET complete == {g \in partial : ~(Len(g) < population_size)}
        running == partial \ complete
    IN  IF running = {}
        THEN complete
        ELSE complete \cup
             while_loop({loop_body(g, pair, population_size) :
                            g \in running, pair \in pairs},
                        pairs, population_size)

\* evolve: the outcomes of one call on the object self with the given
\* fitness of each individual.  all_fitness_scores[0] raises IndexError on an
\* empty population, random.sample raises ValueError when the population is
\* smaller than tournament_size; an exception leaves the object as it was.
evolve(self, fitness) ==
    LET pop_with_fitness ==
            sort_by_fitness([i \in 1 .. Len(self.population) |->
                                <<self.population[i], fitness[i]>>])
        best_chromosome == pop_with_fitness[1][1]
        elite == <<best_chromosome>>
    IN  IF Len(self.population) = 0
        THEN {[self EXCEPT !.status = "raised"]}
        ELSE IF /\ Len(elite) < self.population_size
                /\ Len(pop_with_fitness) < tournament_size
        THEN {[self EXCEPT !.status = "raised"]}
        ELSE {[self EXCEPT !.population = next_generation,
                           !.status = "evolved"] :
                next_generation \in
                    while_loop({elite}, child_pairs(pop_with_fitness),
                               self.population_size)}

(***************************************************************************)
(* The alt GeneticAlgorithm (src/alt/core/genetic_algorithm.py).  The      *)
(* Individuo objects live in a heap (objetos, a sequence; a reference is   *)
(* an index into it), because nova_geracao shares them between the old and *)
(* the new Populacao and mutacao changes them in place.  The 180 weights   *)
(* of an Individuo are abstracted to one weight; aptidao is the outcome of *)
(* the test games (an input); dificuldade is the difficulty gera_aptidao   *)
(* was last called with.                                                   *)
(***************************************************************************)
AltPesos == {-1, 0}
Aptidoes == {0, 1}
MaxTam == 2         \* tamanho_populacao is 2 .. MaxTam
UltimaGeracao == 20
NumeroMaximoGeracoes == {100}

\* Individuo.__init__ followed by gera_aptidao(dificuldade): the objects it
\* can build.
Individuo(inicializar, dificuldade) ==
    {[pesos |-> p, aptidao |-> a, dificuldade |-> dificuldade] :
        p \in (IF inicializar THEN AltPesos ELSE {0}), a \in Aptidoes}

\* Populacao.ordena_populacao on a list of references: stable, best first.
ordena_populacao(individuos, objetos) ==
    LET pairs == sort_by_fitness(
                    [k \in 1 .. Len(individuos) |->
                        <<individuos[k], objetos[individuos[k]].aptidao>>])
    IN  [k \in 1 .. Len(pairs) |-> pairs[k][1]]

\* The values "limite" can take in selecao_torneio.
limites(tamanho_populacao, geracao, numero_maximo_geracoes) ==
    IF 4 * geracao < numero_maximo_geracoes
    THEN {tamanho_populacao}
    ELSE IF 4 * geracao < 3 * numero_maximo_geracoes
    THEN {tamanho_populacao, tamanho_populacao \div 2}
    ELSE {tamanho_populacao, tamanho_populacao \div 4}

\* selecao_torneio: the set of its outcomes.  random.randint(0, limite - 1)
\* raises ValueError when limite <= 0; with limite = 1 the loop "while
\* indice2 == indice1" never ends; otherwise the fitter of two individuals
\* at distinct indices is returned (the first on a tie).
selecao_torneio(individuos, objetos, tamanho, geracao, maximo) ==
    UNION {
        IF limite <= 0 THEN {[kind |-> "raise", ref |-> 0]}
        ELSE IF limite = 1 THEN {[kind |-> "hang", ref |-> 0]}
        ELSE {[kind |-> "individuo",
               ref |-> IF objetos[individuos[indices[1] + 1]].aptidao
                            >= objetos[individuos[indices[2] + 1]].aptidao
                       THEN individuos[indices[1] + 1]
                       ELSE individuos[indices[2] + 1]] :
                indices \in {d \in (0 .. limite - 1) \X (0 .. limite - 1) :
                                d[1] # d[2]}} :
        limite \in limites(tamanho, geracao, maximo)}

\* crossover: a new Individuo whose weights are the mean of the parents'
\* plus gaussian noise (any weight of the grid), evaluated at self.dificuldade.
\* The heaps with the new object appended.
alt_crossover(objetos, pai1, pai2, dificuldade) ==
    {Append(objetos, [pesos |-> p, aptidao |-> a, dificuldade |-> dificuldade]) :
        p \in AltPesos, a \in Aptidoes}

\* mutacao: cromossomo[i] += gauss * intensidade * cromossomo[i] on the
\* weights of the object itself (a zero weight stays zero), then
\* gera_aptidao(self.dificuldade).  The heaps after the call.
mutacao(objetos, individuo, dificuldade) ==
    {[objetos EXCEPT ![individuo] =
            [pesos |-> p, aptidao |-> a, dificuldade |-> dificuldade]] :
        p \in (IF objetos[individuo].pesos = 0 THEN {0} ELSE AltPesos),
        a \in Aptidoes}

\* One pass of the for loop of nova_geracao from the loop state st =
\* [objetos, nova, status]: two tournaments on the old population, crossover
\* or the first parent itself, mutation when i % 25 = 0, set_individuo.
nova_geracao_passo(st, i, populacao, self) ==
    LET torneio == selecao_torneio(populacao, st.objetos, self.tamanho_populacao,
                                   self.geracao, self.numero_maximo_geracoes)
        falhas == {t.kind : t \in {t \in torneio : t.kind # "individuo"}}
        pais == {t.ref : t \in {t \in torneio : t.kind = "individuo"}}
        filhos ==
            UNION {{[objetos |-> o, filho |-> Len(o)] :
                        o \in alt_crossover(st.objetos, pai1, pai2,
                                            self.dificuldade)}
                   \cup {[objetos |-> st.objetos, filho |-> pai1]} :
                   pai1 \in pais, pai2 \in pais}
        mutados ==
            IF i % 25 = 0
            THEN UNION {{[objetos |-> o, filho |-> f.filho] :
                            o \in mutacao(f.objetos, f.filho, self.dificuldade)} :
                        f \in filhos}
            ELSE filhos
    IN  {[st EXCEPT !.status = k] : k \in falhas}
        \cup {[objetos |-> f.objetos, nova |-> Append(st.nova, f.filho),
               status |-> "ok"] : f \in mutados}

\* "for i in range(nova_populacao.get_tam_populacao())" from pass i on.
RECURSIVE nova_geracao_loop(_, _, _, _)
nova_geracao_loop(states, i, populacao, self) ==
    IF i = self.tamanho_populacao
    THEN states
    ELSE LET running == {st \in states : st.status = "ok"}
         IN  (states \ running) \cup
             nova_geracao_loop(
                UNION {nova_geracao_passo(st, i, populacao, self) :
                        st \in running},
                i + 1, populacao, self)

\* The references of a list in the order of their first occurrence.
RECURSIVE primeiras(_, _)
primeiras(individuos, seen) ==
    IF individuos = <<>>
    THEN seen
    ELSE primeiras(Tail(individuos),
                   IF \E k \in 1 .. Len(seen) : seen[k] = Head(individuos)
                   THEN seen
                   ELSE Append(seen, Head(individuos)))

\* The Populacao that nova_geracao returns: the references of the new list
\* and the objects they reach (the objects of the old Populacao that are no
\* longer referenced are dropped, the others renumbered in list order).
Populacao(individuos, objetos) ==
    LET order == primeiras(individuos, <<>>)
    IN  [individuos |-> [k \in 1 .. Len(individuos) |->
                            CHOOSE r \in 1 .. Len(order) :
                                order[r] = individuos[k]],
         objetos |-> [r \in 1 .. Len(order) |-> objetos[order[r]]]]

\* nova_geracao(populacao, geracao) on the object self, whose fields
\* individuos/objetos hold populacao and whose geracao is the argument: the
\* set of outcomes [status, individuos, objetos, antigos]; antigos is the
\* state, after the call, of the objects of the old Populacao (the first
\* Len(self.objetos) objects of the heap: new objects are appended).
nova_geracao(self) ==
    LET nova_populacao ==
            IF self.elitismo THEN <<self.individuos[1]>> ELSE <<>>
        finals == nova_geracao_loop(
                    {[objetos |-> self.objetos, nova |-> nova_populacao,
                      status |-> "ok"]},
                    0, self.individuos, self)
    IN  {IF st.status = "ok"
         THEN LET p == Populacao(ordena_populacao(st.nova, st.objetos),
                                 st.objetos)
              IN  [status |-> "ok", individuos |-> p.individuos,
                   objetos |-> p.objetos,
                   antigos |-> SubSeq(st.objetos, 1, Len(self.objetos))]
         ELSE [status |-> st.status, individuos |-> self.individuos,
               objetos |-> self.objetos,
               antigos |-> SubSeq(st.objetos, 1, Len(self.objetos))] :
         st \in finals}

\* "if geracao == 10: self.dificuldade = 2", "if geracao == 15: ... = 4".
nova_dificuldade(geracao, dificuldade) ==
    IF geracao = 15 THEN 4 ELSE IF geracao = 10 THEN 2 ELSE dificuldade

(***************************************************************************)
(* GeneticAlgorithm._calculate_fitness (src/src/genetic_algorithm.py): one *)
(* simulated game of the network (X) against the MinimaxPlayer (O).  The   *)
(* local state of the call is st = [board, move_tags, pc]: move_tags is    *)
(* the list of tags as the number of occurrences of each tag (the code     *)
(* only appends, tests membership and sums), pc is "nn" at the top of the  *)
(* loop with the game not over, "minimax" before the opponent's move and   *)
(* "end" once the loop is left.                                            *)
(***************************************************************************)
FITNESS_WEIGHTS ==
    [invalid_other_pos |-> -30, invalid_own_pos |-> -50, in_progress |-> 3,
     prioritary |-> 2, offensive |-> 5, defensive |-> 10, draw |-> 25,
     defeat |-> -15, victory |-> 30]

Tags == DOMAIN FITNESS_WEIGHTS

NoTags == [t \in Tags |-> 0]

\* move_tags.append(tag)
append(move_tags, tag) == [move_tags EXCEPT ![tag] = @ + 1]

\* Python list indexing board.board[i] on a list of three: negative indices
\* count from the end, anything outside -3 .. 2 raises IndexError.
PyIndexable(i) == i \in -3 .. 2
PyIndex(i) == IF i < 0 THEN i + 3 ELSE i

\* _is_winning_move: make_move, check_winner, undo_move.  The value returned.
is_winning_move(g, move, symbol) ==
    check_winner(make_move(g, move, symbol).game, symbol)

\* The Board after _is_winning_move (undo_move clears current_winner).
after_is_winning_move(g, move, symbol) ==
    undo_move(make_move(g, move, symbol).game, move)

\* _is_defensive_move: over the valid moves (r, c) other than move, is (r, c)
\* a winning cell of the opponent and move == (r, c).
is_defensive_move(g, move, opponent_symbol) ==
    \E k \in 1 .. Len(get_valid_moves(g)) :
        LET rc == get_valid_moves(g)[k]
        IN  /\ rc # move
            /\ is_winning_move(g, rc, opponent_symbol)
            /\ move = rc

\* _is_priority_move: the centre or a corner.
is_priority_move(move) ==
    move = <<1, 1>> \/ move \in {<<0, 0>>, <<0, 2>>, <<2, 0>>, <<2, 2>>}

\* The tag of an invalid move (lines 57-65): the symbol at the position is
\* read with Python indexing; TypeError (None) and IndexError give
\* "invalid_other_pos".
invalid_tag(g, move) ==
    IF move # NoMove /\ PyIndexable(move[1]) /\ PyIndexable(move[2])
    THEN IF g.board[PyIndex(move[1])][PyIndex(move[2])] = NN_PLAYER_SYMBOL
         THEN "invalid_own_pos"
         ELSE "invalid_other_pos"
    ELSE "invalid_other_pos"

\* Lines 54-87: the network's part of one pass of the loop, for the move
\* that nn.choose_move(board) returned.
nn_turn_retry(st, move) ==
    IF ~is_move_valid(st.board, move)
    THEN [st EXCEPT !.move_tags = append(st.move_tags, invalid_tag(st.board, move))]
    ELSE LET g1 == make_move(st.board, move, NN_PLAYER_SYMBOL).game
         IN  [board |-> g1,
              move_tags |-> append(st.move_tags, "in_progress"),
              pc |-> IF is_game_over(g1) THEN "end" ELSE "minimax"]

nn_turn(st, move) ==
    IF ~is_move_valid(st.board, move)
    THEN [st EXCEPT
            !.move_tags = append(st.move_tags, invalid_tag(st.board, move)),
            !.pc = "end"]
    ELSE LET victory == is_winning_move(st.board, move, NN_PLAYER_SYMBOL)
             g1 == after_is_winning_move(st.board, move, NN_PLAYER_SYMBOL)
             defensive == is_defensive_move(g1, move, OPPONENT_PLAYER_SYMBOL)
             tags1 == IF victory THEN append(st.move_tags, "victory")
                      ELSE st.move_tags
             tags2 == IF defensive THEN append(tags1, "defensive") ELSE tags1
             tags3 == IF tags2["victory"] = 0 /\ tags2["defensive"] = 0
                      THEN append(tags2, "offensive")
                      ELSE tags2
             g2 == undo_move(make_move(g1, move, NN_PLAYER_SYMBOL).game, move)
             tags4 == IF is_priority_move(move)
                      THEN append(tags3, "prioritary")
                      ELSE tags3
             g3 == make_move(g2, move, NN_PLAYER_SYMBOL).game
         IN  [board |-> g3,
              move_tags |-> append(tags4, "in_progress"),
              pc |-> IF is_game_over(g3) THEN "end" ELSE "minimax"]

minimax_turn_network_symbol(st, chosen) ==
    LET g1 == make_move(chosen.game, chosen.position, NN_PLAYER_SYMBOL).game
    IN  [st EXCEPT !.board = g1,
                   !.pc = IF is_game_over(g1) THEN "end" ELSE "nn"]

\* Lines 90-92: the opponent's part; chosen is the result of
\* minimax_player.choose_move(board, OPPONENT_PLAYER_SYMBOL).  The loop
\* condition "while not board.is_game_over()" follows.
minimax_turn(st, chosen) ==
    LET g1 == make_move(chosen.game, chosen.position,
                        OPPONENT_PLAYER_SYMBOL).game
    IN  [st EXCEPT !.board = g1,
                   !.pc = IF is_game_over(g1) THEN "end" ELSE "nn"]

\* The results choose_move can return for the opponent: the search in hard
\* mode, the search or any valid move in medium mode.
minimax_choices(g, difficulty) ==
    {choose_move(g, OPPONENT_PLAYER_SYMBOL, difficulty, TRUE, 1)}
    \cup (IF difficulty = "medium"
          THEN {choose_move(g, OPPONENT_PLAYER_SYMBOL, difficulty, FALSE, pick) :
                    pick \in 1 .. Len(get_valid_moves(g))}
          ELSE {})

\* Lines 101-117: result and fitness once the loop is left.
game_result(st) ==
    IF st.board.current_winner = NN_PLAYER_SYMBOL THEN "win"
    ELSE IF st.board.current_winner = OPPONENT_PLAYER_SYMBOL THEN "loss"
    ELSE IF is_draw(st.board) THEN "draw"
    ELSE "invalid"

final_tags(st) ==
    IF st.board.current_winner = NN_PLAYER_SYMBOL THEN st.move_tags
    ELSE IF st.board.current_winner = OPPONENT_PLAYER_SYMBOL
    THEN append(st.move_tags, "defeat")
    ELSE IF is_draw(st.board) THEN append(st.move_tags, "draw")
    ELSE st.move_tags

RECURSIVE sum_weights(_, _)
sum_weights(move_tags, tags) ==
    IF tags = {}
    THEN 0
    ELSE LET t == CHOOSE x \in tags : TRUE
         IN  FITNESS_WEIGHTS[t] * move_tags[t]
                + sum_weights(move_tags, tags \ {t})

fitness_of(move_tags) == sum_weights(move_tags, Tags)

\* nn.choose_move(board) of the network decoded from a chromosome: a
\* deterministic function of the chromosome and the Board.  The scores of
\* the one-gene network are all equal for gene 0 (the lowest-index empty
\* cell is selected) and increase with the cell index otherwise (the
\* highest-index empty cell is selected); None on a full Board.
nn_choose_move(chromosome, g) ==
    LET valid_moves == get_valid_moves(g)
    IN  IF valid_moves = <<>> THEN NoMove
        ELSE IF chromosome[1] = 0 THEN valid_moves[1]
        ELSE valid_moves[Len(valid_moves)]

\* The states in which the loop of _calculate_fitness can be left, from a
\* set of states at the top of the loop, for every choice of the opponent.
RECURSIVE fitness_loop(_, _, _)
fitness_loop(states, chromosome, difficulty) ==
    IF states = {}
    THEN {}
    ELSE UNION {
            UNION {{st \in after_nn \cup after_minimax : st.pc = "end"}
                    \cup fitness_loop({st \in after_minimax : st.pc # "end"},
                                      chromosome, difficulty) :
                after_minimax \in
                    {UNION {{minimax_turn(st, chosen) :
                                chosen \in minimax_choices(st.board, difficulty)} :
                            st \in {x \in after_nn : x.pc # "end"}}}} :
            after_nn \in
                {{nn_turn(st, nn_choose_move(chromosome, st.board)) :
                    st \in states}}}

\* _calculate_fitness(chromosome, minimax_player): the set of the
\* <<fitness, result>> pairs that the call can return.
calculate_fitness(chromosome, difficulty) ==
    {<<fitness_of(final_tags(st)), game_result(st)>> :
        st \in fitness_loop({[board |-> reset, move_tags |-> NoTags,
                              pc |-> "nn"]},
                            chromosome, difficulty)}

(***************************************************************************)
(* genetic.py (src/src/genetic.py): the population is a matrix of POP_SIZE *)
(* rows, a row the weights of an individual and its fitness in the last    *)
(* column (lower is better).  The 180 weights of a row are abstracted to   *)
(* one weight w on the grid {-1, 0, 1}, the fitness (the mean score of the *)
(* games, an outcome of the random opponent) to the grid {0, 1, 2}.        *)
(***************************************************************************)
PopRows == 3            \* POP_SIZE of the model
EliteRows == 1          \* ELITE_SIZE of the model
MaxGenerations == 3     \* MAX_GENERATIONS of the model
RowWeights == {-1, 0, 1}
MeanScores == {0, 1, 2}
UnknownFitness == 1000  \* np.inf

\* best <= TARGET_FITNESS (0.40)
target_reached(best) == best * 100 <= 40

\* np.clip(x, -1, 1)
clip(x) == IF x < -1 THEN -1 ELSE IF x > 1 THEN 1 ELSE x

\* random_population followed by evaluate_fitness.
random_population ==
    [1 .. PopRows -> [w : RowWeights, fit : MeanScores]]

\* pop[np.argsort(pop[:, -1])]: the rows in ascending order of fitness; the
\* order of rows of equal fitness is not specified by argsort.
argsorted(pop) ==
    {[i \in 1 .. PopRows |-> pop[perm[i]]] :
        perm \in {q \in [1 .. PopRows -> 1 .. PopRows] :
                    /\ \A i, j \in 1 .. PopRows : i # j => q[i] # q[j]
                    /\ \A i \in 1 .. PopRows - 1 :
                          pop[q[i]].fit <= pop[q[i + 1]].fit}}

\* tournament: two distinct random rows, the one of lower fitness (the
\* second on a tie).  The rows it can return.
tournament(pop) ==
    {IF pop[ij[1]].fit < pop[ij[2]].fit THEN ij[1] ELSE ij[2] :
        ij \in {d \in (1 .. PopRows) \X (1 .. PopRows) : d[1] # d[2]}}

\* crossover(parents, offspring): the rows from ELITE_SIZE on are filled in
\* pairs with the blends of two tournament winners, alpha = alpha2 / 2.
\* random.random() is in [0, 1): alpha is 0 or 0.5 here, 0.5 when the mean
\* of the two weights is on the grid.
crossover_pairs(parents) ==
    {<<(c[3] * parents[c[1]].w + (2 - c[3]) * parents[c[2]].w) \div 2,
       ((2 - c[3]) * parents[c[1]].w + c[3] * parents[c[2]].w) \div 2>> :
        c \in {d \in tournament(parents) \X tournament(parents) \X {0, 1} :
                (d[3] * (parents[d[1]].w + parents[d[2]].w)) % 2 = 0}}

RECURSIVE genetic_crossover(_, _, _)
genetic_crossover(parents, offspring, k) ==
    IF k > PopRows
    THEN {offspring}
    ELSE UNION {genetic_crossover(parents,
                    [offspring EXCEPT ![k].w = pair[1], ![k + 1].w = pair[2]],
                    k + 2) :
                pair \in crossover_pairs(parents)}

\* mutate(pop): noise[i] is mask * noise of row i; every row of the matrix
\* is changed and clipped.
genetic_mutate(pop, noise) ==
    [i \in 1 .. PopRows |-> [pop[i] EXCEPT !.w = clip(pop[i].w + noise[i])]]

\* evaluate_fitness(pop): every row plays its games again.
evaluate_fitness(pop, scores) ==
    [i \in 1 .. PopRows |-> [pop[i] EXCEPT !.fit = scores[i]]]

\* One pass of the loop of ga_run after the test of the target, from the
\* sorted population: the populations it can end with.
next_population(pop) ==
    LET new_pop == [i \in 1 .. PopRows |->
                        IF i <= EliteRows THEN pop[i]
                        ELSE [w |-> 0, fit |-> UnknownFitness]]
    IN  {evaluate_fitness(genetic_mutate(crossed, noise), scores) :
            crossed \in genetic_crossover(pop, new_pop, EliteRows + 1),
            noise \in [1 .. PopRows -> {-1, 0, 1}],
            scores \in [1 .. PopRows -> MeanScores]}

(***************************************************************************)
(* The decoders of a flat weight vector: RedeNeuralMLP.__init__            *)
(* (src/src/neural_network.py), Net.__init__ (src/src/genetic.py),         *)
(* MLP.__init__ (src/alt/core/mlp.py) and MLP.set_all_weights              *)
(* (src/src/neural_network/mlp.py).  A network is the sequence of its      *)
(* blocks of weights; a call returns [status, blocks], with status         *)
(* "raised" when it raises (assert statements are executed) and the        *)
(* blocks of the object as the call leaves them.                           *)
(***************************************************************************)
TotalWeights == 180
MaxWeights == 185       \* the vectors have 0 .. MaxWeights weights
NeuronWeights == 10     \* the weights of a neuron of 9 inputs, with its bias
NeuronCount == 18       \* 9 hidden neurons and 9 output neurons

\* Python weights[from:to] on a sequence (0-based, truncated at the end).
slice(weights, from, to) ==
    SubSeq(weights, from + 1, IF to < Len(weights) THEN to ELSE Len(weights))

\* The vector of the given length; weight i is the number i.
weight_vector(length) == [i \in 1 .. length |-> i]

\* The blocks of an object whose weights were never decoded from a vector.
random_blocks(sizes) == [k \in 1 .. Len(sizes) |-> [i \in 1 .. sizes[k] |-> 0]]

\* RedeNeuralMLP(pesos) and Net(weights): the assert on the length, then
\* W1, b1, W2, b2 cut at 81, 90 and 171.
matrix_decode(pesos) ==
    IF Len(pesos) # TotalWeights
    THEN [status |-> "raised", blocks |-> <<>>]
    ELSE [status |-> "ok",
          blocks |-> <<slice(pesos, 0, 81), slice(pesos, 81, 90),
                       slice(pesos, 90, 171), slice(pesos, 171, Len(pesos))>>]

\* MLP(weights) of src/alt: ValueError on the length, then two layers of 90.
layer_decode(weights) ==
    IF Len(weights) # TotalWeights
    THEN [status |-> "raised", blocks |-> <<>>]
    ELSE [status |-> "ok",
          blocks |-> <<slice(weights, 0, 90), slice(weights, 90, 180)>>]

\* MLP.set_all_weights(weights) on an MLP of NeuronCount neurons: each neuron
\* takes the next slice of the length of its current weights.
RECURSIVE set_all_weights(_, _, _, _)
set_all_weights(blocks, weights, neuron, weight_idx) ==
    IF neuron > Len(blocks)
    THEN [status |-> "ok", blocks |-> blocks]
    ELSE LET num_weights_neuron == Len(blocks[neuron])
         IN  set_all_weights(
                [blocks EXCEPT ![neuron] =
                    slice(weights, weight_idx, weight_idx + num_weights_neuron)],
                weights, neuron + 1, weight_idx + num_weights_neuron)

Decoders == {"RedeNeuralMLP", "Net", "alt.MLP", "MLP.set_all_weights"}

\* The object before the call: none for a constructor, an MLP with its
\* initial weights for set_all_weights.
blocks_before(decoder) ==
    IF decoder = "MLP.set_all_weights"
    THEN random_blocks([k \in 1 .. NeuronCount |-> NeuronWeights])
    ELSE <<>>

decode(decoder, weights) ==
    IF decoder \in {"RedeNeuralMLP", "Net"} THEN matrix_decode(weights)
    ELSE IF decoder = "alt.MLP" THEN layer_decode(weights)
    ELSE set_all_weights(blocks_before(decoder), weights, 1, 0)

(***************************************************************************)
(* GeneticAlgorithm.evolve of src/src/genetic_algorithm/ga.py: the loop    *)
(* over the generations and its convergence test.  A generation is seen    *)
(* through the fitness of its chromosomes (the outcome of their games, an  *)
(* input); fitness_history holds the average fitness of each generation.   *)
(* Averages are kept as sums over the population (times its size).         *)
(***************************************************************************)
Generations == 12           \* self.generations
ConvergenceWindow == 10     \* fitness_history[-10:]
ConvergenceThreshold == 1   \* 1.0
FitnessLists == {<<2, 2>>, <<0, 4>>, <<2, 4>>}

RECURSIVE total(_, _)
total(fitness, i) ==
    IF i > Len(fitness) THEN 0 ELSE fitness[i] + total(fitness, i + 1)

\* history[-10:]
trailing(history) ==
    IF Len(history) <= ConvergenceWindow
    THEN history
    ELSE SubSeq(history, Len(history) - ConvergenceWindow + 1, Len(history))

seq_max(history) ==
    CHOOSE x \in {history[i] : i \in 1 .. Len(history)} :
        \A i \in 1 .. Len(history) : history[i] <= x

seq_min(history) ==
    CHOOSE x \in {history[i] : i \in 1 .. Len(history)} :
        \A i \in 1 .. Len(history) : x <= history[i]

\* The test of lines 99-106 on the sums: the averages of the last ten
\* generations differ by less than the threshold.
converged(fitness_history, population_size) ==
    /\ Len(fitness_history) > ConvergenceWindow
    /\ seq_max(trailing(fitness_history)) - seq_min(trailing(fitness_history))
          < ConvergenceThreshold * population_size

(***************************************************************************)
(* Call records.                                                           *)
(***************************************************************************)
(* The alt game (src/alt/core/tic_tac_toe.py, src/alt/core/minimax.py,     *)
(* Individuo.jogar_partida).  The board is a list of 9 cells; JogoDaVelha  *)
(* writes the ints 1 (network) and -1 (opponent) into it, Minimax writes   *)
(* the strings 'X' and 'O' during its search.  The strings are coded here  *)
(* by their code points, so that they differ from every int of the board.  *)
(***************************************************************************)
COMPUTADOR == 88    \* self.computador = 'X'
JOGADOR == 79       \* self.jogador = 'O'
EMPATE == 101       \* the return value 'empate'
AltNone == 9        \* the return value None
AltInf == 1000      \* math.inf

combinacoes == << <<0, 1, 2>>, <<3, 4, 5>>, <<6, 7, 8>>,
                  <<0, 3, 6>>, <<1, 4, 7>>, <<2, 5, 8>>,
                  <<0, 4, 8>>, <<2, 4, 6>> >>

completa(tab, comb) ==
    /\ tab[comb[1]] = tab[comb[2]]
    /\ tab[comb[2]] = tab[comb[3]]
    /\ tab[comb[3]] # 0

livres(tab) == {i \in 0 .. 8 : tab[i] = 0}

\* Minimax.verificar_vencedor: the content of the first complete line,
\* else 'empate' on a full board, else None.
alt_verificar_vencedor(tab) ==
    IF \E k \in 1 .. 8 : completa(tab, combinacoes[k])
    THEN tab[combinacoes[CHOOSE k \in 1 .. 8 :
                            /\ completa(tab, combinacoes[k])
                            /\ \A j \in 1 .. k - 1 :
                                  ~completa(tab, combinacoes[j])][1]]
    ELSE IF livres(tab) = {} THEN EMPATE ELSE AltNone

\* JogoDaVelha.verificar_vencedor: 1 or -1 for a winner, 0 for a draw,
\* None while the game goes on.
jogo_verificar_vencedor(tab) ==
    IF alt_verificar_vencedor(tab) = EMPATE THEN 0
    ELSE alt_verificar_vencedor(tab)

\* max and min of the loops of minimax: -inf / inf when no cell is free.
alt_max(values) ==
    IF values = {} THEN -AltInf
    ELSE CHOOSE v \in values : \A w \in values : w <= v

alt_min(values) ==
    IF values = {} THEN AltInf
    ELSE CHOOSE v \in values : \A w \in values : v <= w

\* Minimax.minimax(tabuleiro, profundidade, is_maximizing).
RECURSIVE alt_minimax(_, _, _)
alt_minimax(tab, profundidade, is_maximizing) ==
    CHOOSE valor \in
        {IF vencedor = JOGADOR THEN -10 + profundidade
         ELSE IF vencedor = COMPUTADOR THEN 10 - profundidade
         ELSE IF vencedor = EMPATE THEN 0
         ELSE IF is_maximizing
         THEN alt_max({alt_minimax([tab EXCEPT ![i] = COMPUTADOR],
                                   profundidade + 1, FALSE) : i \in livres(tab)})
         ELSE alt_min({alt_minimax([tab EXCEPT ![i] = JOGADOR],
                                   profundidade + 1, TRUE) : i \in livres(tab)}) :
         vencedor \in {alt_verificar_vencedor(tab)}} : TRUE

\* The value stored for the cell i in a set of pairs <<cell, value>>.
valor_de(valores, i) == (CHOOSE p \in valores : p[1] = i)[2]

\* Minimax.melhor_jogada: the first free cell of the highest value ("valor >
\* melhor_valor" keeps the earlier cell on a tie), -1 when no value exceeds
\* -inf.
melhor_jogada(tab) ==
    CHOOSE movimento \in
        {IF \A p \in valores : p[2] = -AltInf
         THEN -1
         ELSE CHOOSE i \in livres(tab) :
                /\ \A p \in valores : p[2] <= valor_de(valores, i)
                /\ \A j \in livres(tab) :
                      j < i => valor_de(valores, j) < valor_de(valores, i) :
         valores \in
            {{<<i, alt_minimax([tab EXCEPT ![i] = COMPUTADOR], 0, FALSE)>> :
                i \in livres(tab)}}} : TRUE

\* Minimax.choose_move, melhor being melhor_jogada(tab): None when no cell
\* is free; the search in "dificil" mode; the search or any free cell
\* (random.choice) in "medio" mode.
alt_choose_move(tab, mode, melhor) ==
    IF livres(tab) = {} THEN {AltNone}
    ELSE IF mode = "medio" THEN {melhor} \cup livres(tab)
    ELSE {melhor}

(***************************************************************************)
NoCall == [op |-> "none"]

NoSel == [op |-> "none"]

NoGA == [status |-> "none"]

(***************************************************************************)
(* SpecBoard: a client calls make_move with any argument (valid, occupied, *)
(* out of range, None), also after the game is won, and may undo the move  *)
(* it has just applied, or reset the Board.  The client alternates the two *)
(* symbols, X first,                                                       *)
(* as every driver of the repository does (src/main.py:42-61,              *)
(* src/src/genetic_algorithm.py:54-94).                                    *)
(***************************************************************************)
InitBoard ==
    /\ game = reset
    /\ last = NoCall
    /\ turn = NN_PLAYER_SYMBOL
    /\ side = None /\ pc = "idle"
    /\ tabuleiro = <<>> /\ net = <<>> /\ sel = NoSel /\ ga = NoGA

MakeMove ==
    \E move \in AnyMove :
        LET r == make_move(game, move, turn)
        IN  /\ game' = r.game
            /\ last' = [op |-> "make_move", move |-> move, symbol |-> turn,
                        ok |-> r.ok, before |-> game]
            /\ turn' = IF r.ok THEN OtherPlayer(turn) ELSE turn
            /\ UNCHANGED <<side, pc, tabuleiro, net, sel, ga>>

\* undo_move of the move that the previous call applied (stack discipline).
UndoMove ==
    /\ last.op = "make_move"
    /\ last.ok
    /\ game' = undo_move(game, last.move)
    /\ last' = [op |-> "undo_move", move |-> last.move, symbol |-> last.symbol,
                ok |-> TRUE, before |-> last.before]
    /\ turn' = last.symbol
    /\ UNCHANGED <<side, pc, tabuleiro, net, sel, ga>>

\* Board.reset(): a new game on the same Board; X moves first again.
Reset ==
    /\ game' = reset
    /\ last' = [op |-> "reset", move |-> NoMove, symbol |-> turn,
                ok |-> TRUE, before |-> game]
    /\ turn' = NN_PLAYER_SYMBOL
    /\ UNCHANGED <<side, pc, tabuleiro, net, sel, ga>>

NextBoard == MakeMove \/ UndoMove \/ Reset

SpecBoard == InitBoard /\ [][NextBoard]_vars

(***************************************************************************)
(* SpecGame: one game from the empty Board, X moving first.  The minimax   *)
(* player (hard) plays the symbol "side"; the other side plays any legal   *)
(* move.  The loop is that of src/main.py:42-61: "while not                *)
(* board.is_game_over()", choose_move then make_move.                      *)
(***************************************************************************)
InitGame ==
    /\ game = reset
    /\ last = NoCall
    /\ side \in Symbols
    /\ turn = NN_PLAYER_SYMBOL
    /\ pc = "idle"
    /\ tabuleiro = <<>> /\ net = <<>> /\ sel = NoSel /\ ga = NoGA

MinimaxTurn ==
    /\ ~is_game_over(game)
    /\ turn = side
    /\ \E r \in {choose_move(game, side, "hard", TRUE, 1)} :
          /\ game' = make_move(r.game, r.position, side).game
          /\ last' = [op |-> "choose_move", difficulty |-> "hard",
                      symbol |-> side, position |-> r.position,
                      before |-> game]
    /\ turn' = OtherPlayer(turn)
    /\ UNCHANGED <<side, pc, tabuleiro, net, sel, ga>>

OpponentTurn ==
    /\ ~is_game_over(game)
    /\ turn # side
    /\ \E k \in 1 .. Len(get_valid_moves(game)) :
          LET move == get_valid_moves(game)[k]
          IN  /\ game' = make_move(game, move, turn).game
              /\ last' = [op |-> "make_move", move |-> move, symbol |-> turn,
                          ok |-> TRUE, before |-> game]
    /\ turn' = OtherPlayer(turn)
    /\ UNCHANGED <<side, pc, tabuleiro, net, sel, ga>>

NextGame == MinimaxTurn \/ OpponentTurn

SpecGame == InitGame /\ [][NextGame]_vars

(***************************************************************************)
(* SpecSearch: every position of alternating legal play, X first.  At each *)
(* position choose_move is called once for the side to move, in hard or    *)
(* medium mode, and then any legal move is played.  choose_move is also    *)
(* called on the positions that end a game.                                *)
(***************************************************************************)
InitSearch ==
    /\ game = reset
    /\ last = NoCall
    /\ side = None
    /\ turn = NN_PLAYER_SYMBOL
    /\ pc = "idle"
    /\ tabuleiro = <<>> /\ net = <<>> /\ sel = NoSel /\ ga = NoGA

ChooseRecord(difficulty, r) ==
    [op |-> "choose_move", difficulty |-> difficulty, symbol |-> turn,
     position |-> r.position, before |-> game]

ChooseMove ==
    /\ pc = "idle"
    /\ \E searched \in {choose_move(game, turn, "hard", TRUE, 1)} :
          \/ \E difficulty \in Difficulties :
                /\ game' = searched.game
                /\ last' = ChooseRecord(difficulty, searched)
          \/ \E pick \in 1 .. Len(get_valid_moves(game)) :
                \E r \in {choose_move(game, turn, "medium", FALSE, pick)} :
                    /\ game' = r.game
                    /\ last' = ChooseRecord("medium", r)
    /\ pc' = "chosen"
    /\ UNCHANGED <<side, turn, tabuleiro, net, sel, ga>>

Play ==
    /\ ~is_game_over(game)
    /\ \E k \in 1 .. Len(get_valid_moves(game)) :
          game' = make_move(game, get_valid_moves(game)[k], turn).game
    /\ last' = NoCall
    /\ turn' = OtherPlayer(turn)
    /\ pc' = "idle"
    /\ UNCHANGED <<side, tabuleiro, net, sel, ga>>

NextSearch == ChooseMove \/ Play

SpecSearch == InitSearch /\ [][NextSearch]_vars

(***************************************************************************)
(* SpecNet: the games of play_single_game (src/src/genetic.py:178-192).    *)
(* The network plays X first with the move of one of the selection         *)
(* routines, the opponent answers with any legal move.  The selection      *)
(* routines are called on every position, the final ones included.         *)
(***************************************************************************)
\* Output biases: MaxBias at one raised cell and 0 elsewhere, optionally with
\* -inf (an overflowed output) at the last two cells.
NegCells == {7, 8}

BiasVectors ==
    {[i \in Cells |-> IF i = p THEN MaxBias
                      ELSE IF overflow /\ i \in NegCells THEN NegInf ELSE 0] :
        p \in Cells, overflow \in BOOLEAN}

Networks == {[w1 |-> Sat, w2 |-> w, b2 |-> b] : w \in {0, 1}, b \in BiasVectors}

InitNet ==
    /\ tabuleiro = [i \in Cells |-> 0]
    /\ net \in Networks
    /\ sel = NoSel
    /\ turn = NN_PLAYER_SYMBOL
    /\ game = reset /\ last = NoCall /\ side = None /\ pc = "idle"
    /\ ga = NoGA

PickRange(cells) ==
    IF legal_moves(cells) = <<>> THEN {1} ELSE 1 .. Len(legal_moves(cells))

Select ==
    /\ sel = NoSel
    /\ \E pick \in PickRange(tabuleiro), stable \in BOOLEAN :
          sel' = [op |-> "select",
                  RedeNeuralMLP |-> escolher_jogada(tabuleiro, net, pick),
                  Net |-> policy(tabuleiro, net, pick),
                  MLP |-> MLP_choose_move(tabuleiro, net),
                  ga |-> nn_make_move_decision_for_game(tabuleiro, net, stable)]
    /\ UNCHANGED <<game, last, side, turn, pc, tabuleiro, net, ga>>

\* Board.play(move, 1) with the move of one of the routines.
NetPlay ==
    /\ sel # NoSel
    /\ turn = NN_PLAYER_SYMBOL
    /\ winner(tabuleiro) = <<>>
    /\ \/ \E v \in {"RedeNeuralMLP", "Net", "MLP"} :
             /\ sel[v].kind = "index"
             /\ tabuleiro' = [tabuleiro EXCEPT ![sel[v].value] = 1]
       \/ /\ sel.ga[1] \in Idx /\ sel.ga[2] \in Idx
          /\ tabuleiro' = [tabuleiro EXCEPT ![3 * sel.ga[1] + sel.ga[2]] = 1]
    /\ sel' = NoSel
    /\ turn' = OPPONENT_PLAYER_SYMBOL
    /\ UNCHANGED <<game, last, side, pc, net, ga>>

\* Board.play(move, -1) with any legal move of the opponent.
OppPlay ==
    /\ turn = OPPONENT_PLAYER_SYMBOL
    /\ winner(tabuleiro) = <<>>
    /\ \E k \in 1 .. Len(legal_moves(tabuleiro)) :
          tabuleiro' = [tabuleiro EXCEPT ![legal_moves(tabuleiro)[k]] = -1]
    /\ sel' = NoSel
    /\ turn' = NN_PLAYER_SYMBOL
    /\ UNCHANGED <<game, last, side, pc, net, ga>>

NextNet == Select \/ NetPlay \/ OppPlay

SpecNet == InitNet /\ [][NextNet]_vars

(***************************************************************************)
(* SpecGA: a GeneticAlgorithm object after its constructor, with any       *)
(* population size of 0 .. MaxPop and chromosomes of one gene, and any     *)
(* number of calls of evolve, also after a call that raised.               *)
(***************************************************************************)
InitGA ==
    /\ \E population_size \in 0 .. MaxPop :
          \E population \in create_initial_population(population_size, 1) :
              ga = [population_size |-> population_size,
                    chromosome_length |-> 1,
                    population |-> population,
                    status |-> "constructed"]
    /\ game = reset /\ last = NoCall /\ side = None /\ pc = "idle"
    /\ turn = NN_PLAYER_SYMBOL
    /\ tabuleiro = <<>> /\ net = <<>> /\ sel = NoSel

Evolve ==
    /\ \E fitness \in [1 .. Len(ga.population) -> FitnessVals] :
          ga' \in evolve(ga, fitness)
    /\ UNCHANGED <<game, last, side, turn, pc, tabuleiro, net, sel>>

NextGA == Evolve

SpecGA == InitGA /\ [][NextGA]_vars

(***************************************************************************)
(* SpecAlt: run_ga of the alt GeneticAlgorithm, configured as in           *)
(* src/alt/main.py but with a population of 2 .. MaxTam individuals and    *)
(* elitismo enabled or disabled.  ga.dificuldade_geracao is the value of   *)
(* self.dificuldade that nova_geracao of the current generation ran with.  *)
(***************************************************************************)
InitAlt ==
    /\ \E tamanho \in 2 .. MaxTam, elitismo \in BOOLEAN,
          numero_maximo_geracoes \in NumeroMaximoGeracoes :
          \E criados \in [1 .. tamanho -> Individuo(TRUE, 1)] :
              LET todos == [k \in 1 .. tamanho |-> k]
                  p == Populacao(ordena_populacao(todos, criados), criados)
              IN  ga = [tamanho_populacao |-> tamanho,
                        elitismo |-> elitismo,
                        numero_maximo_geracoes |-> numero_maximo_geracoes,
                        dificuldade |-> 1,
                        dificuldade_geracao |-> 1,
                        geracao |-> 1,
                        individuos |-> p.individuos,
                        objetos |-> p.objetos,
                        status |-> "running"]
    /\ game = reset /\ last = NoCall /\ side = None /\ pc = "idle"
    /\ turn = NN_PLAYER_SYMBOL
    /\ tabuleiro = <<>> /\ net = <<>> /\ sel = NoSel

\* One pass of "while geracao < 20".
Geracao ==
    /\ ga.status = "running"
    /\ ga.geracao < UltimaGeracao
    /\ \E r \in nova_geracao([ga EXCEPT !.geracao = ga.geracao + 1]) :
          /\ ga' = IF r.status = "ok"
                THEN [ga EXCEPT
                        !.geracao = ga.geracao + 1,
                        !.individuos = r.individuos,
                        !.objetos = r.objetos,
                        !.dificuldade_geracao = ga.dificuldade,
                        !.dificuldade =
                            nova_dificuldade(ga.geracao + 1, ga.dificuldade)]
                ELSE [ga EXCEPT !.geracao = ga.geracao + 1,
                                !.status = r.status]
          /\ sel' = [op |-> "nova_geracao", status |-> r.status,
                     populacao |-> ga.individuos, antes |-> ga.objetos,
                     depois |-> r.antigos]
    /\ UNCHANGED <<game, last, side, turn, pc, tabuleiro, net>>

\* "return populacao.get_individuo(0).get_pesos()".
RetornaMelhor ==
    /\ ga.status = "running"
    /\ ga.geracao = UltimaGeracao
    /\ ga' = [ga EXCEPT !.status = "returned"]
    /\ UNCHANGED <<game, last, side, turn, pc, tabuleiro, net, sel>>

NextAlt == Geracao \/ RetornaMelhor

SpecAlt == InitAlt /\ [][NextAlt]_vars

(***************************************************************************)
(* SpecFitness: one call of _calculate_fitness.  The network is any move   *)
(* function: nn.choose_move returns any move, valid or not, at each call.  *)
(* The opponent is MinimaxPlayer("hard") or MinimaxPlayer("medium").       *)
(* last holds the locals of the call: the difficulty, move_tags, the       *)
(* number of calls of nn.choose_move, the Board at the invalid move (if    *)
(* any) and, after the return, result and fitness.                         *)
(***************************************************************************)
InitFitness ==
    /\ game = reset
    /\ pc = "nn"
    /\ \E difficulty \in Difficulties :
          last = [op |-> "calculate_fitness", difficulty |-> difficulty,
                  move_tags |-> NoTags, asked |-> 0,
                  invalid |-> FALSE, before |-> reset,
                  result |-> "invalid", fitness |-> 0]
    /\ turn = NN_PLAYER_SYMBOL
    /\ side = None
    /\ tabuleiro = <<>> /\ net = <<>> /\ sel = NoSel /\ ga = NoGA

NetworkMove ==
    /\ pc = "nn"
    /\ \E move \in AnyMove :
          LET st == nn_turn([board |-> game, move_tags |-> last.move_tags,
                             pc |-> pc], move)
          IN  /\ game' = st.board
              /\ pc' = st.pc
              /\ last' = [last EXCEPT
                            !.move_tags = st.move_tags,
                            !.asked = last.asked + 1,
                            !.invalid = ~is_move_valid(game, move),
                            !.before = game]
    /\ turn' = OPPONENT_PLAYER_SYMBOL
    /\ UNCHANGED <<side, tabuleiro, net, sel, ga>>

MinimaxMove ==
    /\ pc = "minimax"
    /\ \E chosen \in minimax_choices(game, last.difficulty) :
          LET st == minimax_turn([board |-> game, move_tags |-> last.move_tags,
                                  pc |-> pc], chosen)
          IN  /\ game' = st.board
              /\ pc' = st.pc
    /\ turn' = NN_PLAYER_SYMBOL
    /\ UNCHANGED <<last, side, tabuleiro, net, sel, ga>>

ReturnFitness ==
    /\ pc = "end"
    /\ LET st == [board |-> game, move_tags |-> last.move_tags, pc |-> pc]
       IN  last' = [last EXCEPT !.move_tags = final_tags(st),
                                !.result = game_result(st),
                                !.fitness = fitness_of(final_tags(st))]
    /\ pc' = "returned"
    /\ UNCHANGED <<game, side, turn, tabuleiro, net, sel, ga>>

NextFitness == NetworkMove \/ MinimaxMove \/ ReturnFitness

SpecFitness == InitFitness /\ [][NextFitness]_vars

(***************************************************************************)
(* SpecTrain: the training loop (one MinimaxPlayer of a fixed difficulty,  *)
(* evolve called generation after generation) with the fitness of every    *)
(* chromosome computed by _calculate_fitness.  ga.outcomes holds, for each *)
(* chromosome, the values the call can return against this opponent; last  *)
(* holds the best fitness evolve printed in this generation and in the     *)
(* generation before.  In medium mode the population is one chromosome (a  *)
(* generation of five has 14^5 outcomes of the fitness evaluation).        *)
(***************************************************************************)
TrainSizes(difficulty) ==
    IF difficulty = "hard" THEN {1, tournament_size} ELSE {1}

best_fitness(fitness) ==
    CHOOSE f \in {fitness[i] : i \in DOMAIN fitness} :
        \A i \in DOMAIN fitness : fitness[i] <= f

InitTrain ==
    /\ \E difficulty \in Difficulties :
          ga = [status |-> "new",
                difficulty |-> difficulty,
                outcomes |-> [c \in Chromosomes(1) |->
                                calculate_fitness(c, difficulty)]]
    /\ last = [op |-> "train", generation |-> 0,
               best_fitness |-> 0, previous_best |-> 0]
    /\ game = reset /\ side = None /\ pc = "idle"
    /\ turn = NN_PLAYER_SYMBOL
    /\ tabuleiro = <<>> /\ net = <<>> /\ sel = NoSel

\* GeneticAlgorithm(population_size, 1, ...)
TrainConstruct ==
    /\ ga.status = "new"
    /\ \E population_size \in TrainSizes(ga.difficulty) :
       \E population \in create_initial_population(population_size, 1) :
          ga' = [population_size |-> population_size,
                 chromosome_length |-> 1,
                 population |-> population,
                 status |-> "constructed",
                 difficulty |-> ga.difficulty,
                 outcomes |-> ga.outcomes]
    /\ UNCHANGED <<last, game, side, turn, pc, tabuleiro, net, sel>>

TrainGeneration ==
    /\ ga.status # "new"
    /\ \E fitness_results \in
            [1 .. Len(ga.population) -> UNION {ga.outcomes[c] :
                                                c \in Chromosomes(1)}] :
          /\ \A i \in 1 .. Len(ga.population) :
                fitness_results[i] \in ga.outcomes[ga.population[i]]
          /\ LET fitness == [i \in 1 .. Len(ga.population) |->
                                fitness_results[i][1]]
             IN  /\ ga' \in evolve(ga, fitness)
                 /\ last' = [last EXCEPT
                                !.generation = IF @ < 2 THEN @ + 1 ELSE @,
                                !.best_fitness = best_fitness(fitness),
                                !.previous_best = last.best_fitness]
    /\ UNCHANGED <<game, side, turn, pc, tabuleiro, net, sel>>

NextTrain == TrainConstruct \/ TrainGeneration

SpecTrain == InitTrain /\ [][NextTrain]_vars

(***************************************************************************)
(* SpecMoves: a Board and any sequence of make_move and reset calls, with  *)
(* any move (valid or not) and either mark at each make_move, in any order *)
(* and also after the game is over; undo_move is never called.             *)
(***************************************************************************)
PlaceMark ==
    \E move \in AnyMove, symbol \in Symbols :
        LET r == make_move(game, move, symbol)
        IN  /\ game' = r.game
            /\ last' = [op |-> "place", symbol |-> symbol, ok |-> r.ok]
            /\ turn' = symbol
            /\ UNCHANGED <<side, pc, tabuleiro, net, sel, ga>>

NextMoves == PlaceMark \/ Reset

SpecMoves == InitBoard /\ [][NextMoves]_vars

(***************************************************************************)
(* SpecElite: SpecGA with the elitism_count argument of the constructor    *)
(* and a record of each call of evolve: the elitism_count best chromosomes *)
(* of the ranked population (top), the number of fitness evaluations the   *)
(* call performed before it returned or raised (evaluated).                *)
(***************************************************************************)
ElitismCounts == {1, 2}

SubSeqTop(ranked, k) ==
    [i \in 1 .. (IF k < Len(ranked) THEN k ELSE Len(ranked)) |-> ranked[i][1]]

InitElite ==
    /\ \E population_size \in 0 .. MaxPop :
       \E elitism_count \in ElitismCounts :
       \E population \in create_initial_population(population_size, 1) :
          ga = [population_size |-> population_size,
                chromosome_length |-> 1,
                elitism_count |-> elitism_count,
                population |-> population,
                status |-> "constructed"]
    /\ last = NoCall
    /\ game = reset /\ side = None /\ pc = "idle"
    /\ turn = NN_PLAYER_SYMBOL
    /\ tabuleiro = <<>> /\ net = <<>> /\ sel = NoSel

EvolveElite ==
    /\ \E fitness \in [1 .. Len(ga.population) -> FitnessVals] :
          /\ ga' \in evolve(ga, fitness)
          /\ last' = [op |-> "evolve",
                      top |-> SubSeqTop(
                                sort_by_fitness(
                                    [i \in 1 .. Len(ga.population) |->
                                        <<ga.population[i], fitness[i]>>]),
                                ga.elitism_count),
                      evaluated |-> Len(ga.population)]
    /\ UNCHANGED <<game, side, turn, pc, tabuleiro, net, sel>>

NextElite == EvolveElite

SpecElite == InitElite /\ [][NextElite]_vars

(***************************************************************************)
(* SpecGenetic: ga_run of genetic.py.  ga holds the population and the     *)
(* generation counter, last the elite rows of the sorted population at     *)
(* the last pass of the loop.                                              *)
(***************************************************************************)
InitGenetic ==
    /\ \E pop \in random_population :
          ga = [pop |-> pop, gen |-> 1, status |-> "running"]
    /\ last = NoCall
    /\ game = reset /\ side = None /\ pc = "idle"
    /\ turn = NN_PLAYER_SYMBOL
    /\ tabuleiro = <<>> /\ net = <<>> /\ sel = NoSel

GeneticGeneration ==
    /\ ga.status = "running"
    /\ ga.gen <= MaxGenerations
    /\ \E pop \in argsorted(ga.pop) :
          IF target_reached(pop[1].fit)
          THEN /\ ga' = [ga EXCEPT !.pop = pop, !.status = "finished"]
               /\ last' = [op |-> "break"]
          ELSE /\ \E new_pop \in next_population(pop) :
                      ga' = [ga EXCEPT !.pop = new_pop, !.gen = ga.gen + 1]
               /\ last' = [op |-> "generation",
                           elite |-> [i \in 1 .. EliteRows |-> pop[i].w]]
    /\ UNCHANGED <<game, side, turn, pc, tabuleiro, net, sel>>

GeneticFinished ==
    /\ ga.status = "running"
    /\ ga.gen > MaxGenerations
    /\ \E pop \in argsorted(ga.pop) :
          ga' = [ga EXCEPT !.pop = pop, !.status = "finished"]
    /\ last' = [op |-> "finished"]
    /\ UNCHANGED <<game, side, turn, pc, tabuleiro, net, sel>>

NextGenetic == GeneticGeneration \/ GeneticFinished

SpecGenetic == InitGenetic /\ [][NextGenetic]_vars

(***************************************************************************)
(* SpecDecode: one call of a decoder on a weight vector of any length of   *)
(* 0 .. MaxWeights.  net is the object (its blocks), last the call.        *)
(***************************************************************************)
InitDecode ==
    /\ \E decoder \in Decoders :
          /\ net = blocks_before(decoder)
          /\ last = [op |-> "new", decoder |-> decoder]
    /\ game = reset /\ side = None /\ pc = "idle"
    /\ turn = NN_PLAYER_SYMBOL
    /\ tabuleiro = <<>> /\ sel = NoSel /\ ga = NoGA

Decode ==
    /\ last.op = "new"
    /\ \E length \in 0 .. MaxWeights :
          LET r == decode(last.decoder, weight_vector(length))
          IN  /\ net' = r.blocks
              /\ last' = [op |-> "decode", decoder |-> last.decoder,
                          length |-> length, status |-> r.status,
                          before |-> net]
    /\ UNCHANGED <<game, side, turn, pc, tabuleiro, sel, ga>>

NextDecode == Decode

SpecDecode == InitDecode /\ [][NextDecode]_vars

(***************************************************************************)
(* SpecTorneio: one call of the alt selecao_torneio, statement by          *)
(* statement, on a ranked population of 2 .. MaxTorneio individuals, for   *)
(* the generations 0 .. TorneioGeracoes and the values TorneioMaximos of   *)
(* numero_maximo_geracoes.  sel holds the call: its arguments, limite,     *)
(* indice1, indice2 and the position pc of the call.  The random draws are *)
(* fair: a draw that can give an index other than indice1 eventually does. *)
(***************************************************************************)
MaxTorneio == 5
TorneioGeracoes == 4
TorneioMaximos == {1, 4}

\* The fitness values of a ranked population (ordena_populacao: best first).
populacoes_ordenadas(tamanho) ==
    {p \in [1 .. tamanho -> Aptidoes] :
        \A k \in 1 .. tamanho - 1 : p[k] >= p[k + 1]}

InitTorneio ==
    /\ \E tamanho \in 2 .. MaxTorneio, geracao \in 0 .. TorneioGeracoes,
          maximo \in TorneioMaximos :
          \E aptidoes \in populacoes_ordenadas(tamanho) :
              sel = [op |-> "selecao_torneio", pc |-> "start",
                     tamanho_populacao |-> tamanho, geracao |-> geracao,
                     numero_maximo_geracoes |-> maximo,
                     aptidoes |-> aptidoes,
                     limite |-> 0, indice1 |-> 0, indice2 |-> 0, indice |-> -1]
    /\ game = reset /\ last = NoCall /\ side = None /\ pc = "idle"
    /\ turn = NN_PLAYER_SYMBOL
    /\ tabuleiro = <<>> /\ net = <<>> /\ ga = NoGA

\* Lines 101-111: limite is chosen and the two indices are drawn;
\* random.randint(0, limite - 1) raises ValueError when limite <= 0.
TorneioSorteio ==
    /\ sel.op = "selecao_torneio" /\ sel.pc = "start"
    /\ \E limite \in limites(sel.tamanho_populacao, sel.geracao,
                             sel.numero_maximo_geracoes) :
          IF limite <= 0
          THEN sel' = [sel EXCEPT !.pc = "raised", !.limite = limite]
          ELSE \E indice1 \in 0 .. limite - 1, indice2 \in 0 .. limite - 1 :
                  sel' = [sel EXCEPT !.pc = "while", !.limite = limite,
                                     !.indice1 = indice1, !.indice2 = indice2]
    /\ UNCHANGED <<game, last, side, turn, pc, tabuleiro, net, ga>>

\* Lines 112-113: "while indice2 == indice1: indice2 = randint(0, limite - 1)".
TorneioRepete ==
    /\ sel.op = "selecao_torneio" /\ sel.pc = "while"
    /\ sel.indice2 = sel.indice1
    /\ \E indice2 \in 0 .. sel.limite - 1 :
          sel' = [sel EXCEPT !.indice2 = indice2]
    /\ UNCHANGED <<game, last, side, turn, pc, tabuleiro, net, ga>>

\* Lines 115-118: the loop is left and the fitter of the two individuals is
\* returned (the first on a tie); indice is its index in the population.
TorneioRetorna ==
    /\ sel.op = "selecao_torneio" /\ sel.pc = "while"
    /\ sel.indice2 # sel.indice1
    /\ sel' = [sel EXCEPT
                !.pc = "returned",
                !.indice = IF sel.aptidoes[sel.indice1 + 1]
                                >= sel.aptidoes[sel.indice2 + 1]
                           THEN sel.indice1 ELSE sel.indice2]
    /\ UNCHANGED <<game, last, side, turn, pc, tabuleiro, net, ga>>

NextTorneio == TorneioSorteio \/ TorneioRepete \/ TorneioRetorna

SpecTorneio ==
    /\ InitTorneio
    /\ [][NextTorneio]_vars
    /\ WF_vars(TorneioSorteio)
    /\ WF_vars(TorneioRetorna)
    /\ SF_vars(TorneioRepete /\ sel'.indice2 # sel.indice1)

(***************************************************************************)
(* SpecPartida: one call of Individuo.jogar_partida(rede, dificuldade).    *)
(* The network is any move function: MLP.choose_move returns any free      *)
(* cell.  ga holds dificuldade, jogo.jogador_atual and the returned value; *)
(* pc is "rede" when turno = 1, "oponente" when turno = -1; last is the    *)
(* last call of Minimax.choose_move.                                       *)
(***************************************************************************)
Dificuldades == {1, 2, 4}

\* JogoDaVelha.jogar on the game [tabuleiro, jogador_atual].
jogar(jogo, posicao) ==
    IF jogo.tabuleiro[posicao] # 0
    THEN jogo
    ELSE [tabuleiro |-> [jogo.tabuleiro EXCEPT ![posicao] = jogo.jogador_atual],
          jogador_atual |-> -jogo.jogador_atual]

\* Lines 189-198: the game is over or the turn passes.
depois_da_jogada(jogo, proximo) ==
    /\ tabuleiro' = jogo.tabuleiro
    /\ IF jogo_verificar_vencedor(jogo.tabuleiro) # AltNone
       THEN /\ pc' = "returned"
            /\ ga' = [ga EXCEPT
                        !.jogador_atual = jogo.jogador_atual,
                        !.resultado = jogo_verificar_vencedor(jogo.tabuleiro)]
       ELSE /\ pc' = proximo
            /\ ga' = [ga EXCEPT !.jogador_atual = jogo.jogador_atual]

InitPartida ==
    /\ tabuleiro = [i \in Cells |-> 0]
    /\ \E dificuldade \in Dificuldades :
          ga = [status |-> "jogar_partida", dificuldade |-> dificuldade,
                jogador_atual |-> 1, resultado |-> AltNone]
    /\ pc = "rede"
    /\ last = NoCall
    /\ game = reset /\ side = None /\ turn = NN_PLAYER_SYMBOL
    /\ net = <<>> /\ sel = NoSel

\* Lines 171-175: the network's turn.
PartidaRede ==
    /\ ga.status = "jogar_partida" /\ pc = "rede"
    /\ \E jogada \in livres(tabuleiro) :
          depois_da_jogada(
              jogar([tabuleiro |-> tabuleiro,
                     jogador_atual |-> ga.jogador_atual], jogada),
              "oponente")
    /\ UNCHANGED <<game, last, side, turn, net, sel>>

\* Lines 177-181: the random opponent of dificuldade 1.
PartidaAleatoria ==
    /\ ga.status = "jogar_partida" /\ pc = "oponente"
    /\ ga.dificuldade = 1
    /\ \E jogada \in livres(tabuleiro) :
          depois_da_jogada(
              jogar([tabuleiro |-> tabuleiro,
                     jogador_atual |-> ga.jogador_atual], jogada),
              "rede")
    /\ UNCHANGED <<game, last, side, turn, net, sel>>

\* Lines 182-187: Minimax("dificil" if dificuldade > 2 else "medio") moves.
PartidaMinimax ==
    /\ ga.status = "jogar_partida" /\ pc = "oponente"
    /\ ga.dificuldade # 1
    /\ \E melhor \in {melhor_jogada(tabuleiro)} :
       \E mode \in {IF ga.dificuldade > 2 THEN "dificil" ELSE "medio"} :
       \E jogada \in alt_choose_move(tabuleiro, mode, melhor) :
          /\ last' = [op |-> "alt_choose_move", mode |-> mode,
                      antes |-> tabuleiro, jogada |-> jogada]
          /\ depois_da_jogada(
                jogar([tabuleiro |-> tabuleiro,
                       jogador_atual |-> ga.jogador_atual], jogada),
                "rede")
    /\ UNCHANGED <<game, side, turn, net, sel>>

NextPartida == PartidaRede \/ PartidaAleatoria \/ PartidaMinimax

SpecPartida == InitPartida /\ [][NextPartida]_vars

(***************************************************************************)
(* SpecRun: one call of evolve of src/src/genetic_algorithm/ga.py after    *)
(* initialize_population, with the operators of operators.py.  Chromosome  *)
(* objects live in a heap: ga.fitness[r] is the fitness attribute of the   *)
(* object r, ga.population the list of references, ga.best_chromosome a    *)
(* reference (0 for None).  calculate_fitness plays random games: it       *)
(* returns any value of FitnessVals.  The runs have at most RunGenerations *)
(* generations, fewer than the 11 the convergence test needs.              *)
(***************************************************************************)
MaxRun == 5
RunGenerations == 3
RunSizes == MaxRun - 1 .. MaxRun
RunElitism == {2, 3}

\* The references of a population, best fitness first (list.sort with
\* reverse=True is stable).
sorted_population(population, fitness) ==
    LET pairs == sort_by_fitness([k \in 1 .. Len(population) |->
                                    <<population[k], fitness[population[k]]>>])
    IN  [k \in 1 .. Len(pairs) |-> pairs[k][1]]

\* The chromosomes a tournament can return: a member of some sample of
\* tournament_size positions that no member of the sample beats.
tournament_outcomes(population, fitness) ==
    {population[i] : i \in
        {i \in 1 .. Len(population) :
            \E sample \in SUBSET (1 .. Len(population)) :
                /\ Cardinality(sample) = tournament_size
                /\ i \in sample
                /\ \A j \in sample :
                      fitness[population[j]] <= fitness[population[i]]}}

\* operators.selection(population, elitism_count): the elites, then
\* tournament winners up to len(population).  random.sample raises
\* ValueError on a population smaller than the sample.
selection(population, fitness, elitism_count) ==
    LET ranked == sorted_population(population, fitness)
        elites == SubSeq(ranked, 1, elitism_count)
    IN  IF Len(elites) >= Len(population)
        THEN {[status |-> "ok", selected |-> elites]}
        ELSE IF Len(population) < tournament_size
        THEN {[status |-> "raised", selected |-> elites]}
        ELSE {[status |-> "ok", selected |-> elites \o winners] :
                winners \in [1 .. Len(population) - Len(elites) ->
                                tournament_outcomes(ranked, fitness)]}

\* The number of Chromosome objects that the reproduction loop of evolve
\* appends: "while len(new_population) < self.population_size".
reproduction(selected, population_size) ==
    IF Len(selected) < population_size
    THEN population_size - Len(selected)
    ELSE 0

\* max(self.population, key=fitness): the first chromosome of the highest
\* fitness.
current_best_chromosome(population, fitness) ==
    population[CHOOSE k \in 1 .. Len(population) :
                /\ \A j \in 1 .. Len(population) :
                      fitness[population[j]] <= fitness[population[k]]
                /\ \A j \in 1 .. k - 1 :
                      fitness[population[j]] < fitness[population[k]]]

\* Lines 86-90: the best chromosome is replaced by a strictly fitter one.
update_best(best_chromosome, current, fitness) ==
    IF best_chromosome = 0 \/ fitness[current] > fitness[best_chromosome]
    THEN current
    ELSE best_chromosome

InitRun ==
    /\ \E population_size \in RunSizes, elitism_count \in RunElitism :
          ga = [population_size |-> population_size,
                elitism_count |-> elitism_count,
                generations |-> RunGenerations,
                generation |-> 0,
                population |-> [k \in 1 .. population_size |-> k],
                fitness |-> [k \in 1 .. population_size |-> 0],
                best_chromosome |-> 0,
                status |-> "running"]
    /\ last = NoCall
    /\ game = reset /\ side = None /\ pc = "idle"
    /\ turn = NN_PLAYER_SYMBOL
    /\ tabuleiro = <<>> /\ net = <<>> /\ sel = NoSel

\* One pass of "for generation in range(self.generations)".  When
\* selection raises, self.population is left as population.sort ordered it
\* and no chromosome has been created.  last logs the
\* generation: the fitness of the best chromosome before and after it, the
\* highest fitness assigned so far, the number of chromosomes created.
RunGeneration ==
    /\ ga.status = "running"
    /\ ga.generation < ga.generations
    /\ \E assigned \in [{ga.population[k] : k \in 1 .. Len(ga.population)}
                            -> FitnessVals] :
       \E fitness \in {[r \in 1 .. Len(ga.fitness) |->
                            IF r \in DOMAIN assigned
                            THEN assigned[r] ELSE ga.fitness[r]]} :
       \E best \in {update_best(ga.best_chromosome,
                                current_best_chromosome(ga.population, fitness),
                                fitness)} :
       \E s \in selection(ga.population, fitness, ga.elitism_count) :
       \E created \in {reproduction(s.selected, ga.population_size)} :
          /\ ga' = [ga EXCEPT
                      !.generation = ga.generation + 1,
                      !.fitness =
                          IF s.status = "ok"
                          THEN fitness \o [k \in 1 .. created |-> 0]
                          ELSE fitness,
                      !.best_chromosome = best,
                      !.population =
                          IF s.status = "ok"
                          THEN SubSeq(s.selected
                                        \o [k \in 1 .. created |->
                                                Len(fitness) + k],
                                      1, ga.population_size)
                          ELSE sorted_population(ga.population, fitness),
                      !.status = IF s.status = "ok" THEN "running"
                                 ELSE "raised"]
          /\ last' = [op |-> "generation",
                      best_before |->
                          IF ga.best_chromosome = 0 THEN 0
                          ELSE ga.fitness[ga.best_chromosome],
                      had_best |-> ga.best_chromosome # 0,
                      best_after |-> fitness[best],
                      max_assigned |->
                          seq_max(<<fitness[current_best_chromosome(
                                                ga.population, fitness)]>>
                                  \o (IF last.op = "generation"
                                      THEN <<last.max_assigned>> ELSE <<>>)),
                      created |-> IF s.status = "ok" THEN created ELSE 0]
    /\ UNCHANGED <<game, side, turn, pc, tabuleiro, net, sel>>

\* "return self.best_chromosome, self.fitness_history".
RunReturn ==
    /\ ga.status = "running"
    /\ ga.generation = ga.generations
    /\ ga' = [ga EXCEPT !.status = "returned"]
    /\ UNCHANGED <<game, last, side, turn, pc, tabuleiro, net, sel>>

NextRun == RunGeneration \/ RunReturn

SpecRun == InitRun /\ [][NextRun]_vars

(***************************************************************************)
(* SpecConverge: one call of evolve of ga.py with a budget of Generations  *)
(* generations on a population of two chromosomes, long enough for the     *)
(* convergence test.  The heap is that of SpecRun: ga.fitness[r] is the    *)
(* fitness attribute of the object r, ga.population the list of            *)
(* references, ga.best_chromosome a reference (0 for None).  The fitness   *)
(* that calculate_fitness gives to the chromosomes of a generation, in     *)
(* list order, is any list of FitnessLists.  ga.fitness_history holds the  *)
(* sums of the generations; ga.best_history logs, for each generation,     *)
(* self.best_chromosome.fitness as line 96 prints it.  With                *)
(* elitism_count = 1 selection needs a tournament of 5 among 2 chromosomes *)
(* and raises; with elitism_count = 2 it returns the sorted population.    *)
(***************************************************************************)
ConvergeElitism == {1, 2}

\* Lines 78-81: every chromosome of the population, in list order, gets
\* the fitness of its position; the other objects keep theirs.
evaluate(population, fitness, assigned) ==
    [r \in 1 .. Len(fitness) |->
        IF \E k \in 1 .. Len(population) : population[k] = r
        THEN assigned[CHOOSE k \in 1 .. Len(population) :
                        /\ population[k] = r
                        /\ \A j \in k + 1 .. Len(population) :
                              population[j] # r]
        ELSE fitness[r]]

InitConverge ==
    /\ \E elitism_count \in ConvergeElitism :
          ga = [population_size |-> 2,
                elitism_count |-> elitism_count,
                generations |-> Generations,
                generation |-> 0,
                population |-> <<1, 2>>,
                fitness |-> <<0, 0>>,
                best_chromosome |-> 0,
                fitness_history |-> <<>>,
                best_history |-> <<>>,
                status |-> "running"]
    /\ last = NoCall
    /\ game = reset /\ side = None /\ pc = "idle"
    /\ turn = NN_PLAYER_SYMBOL
    /\ tabuleiro = <<>> /\ net = <<>> /\ sel = NoSel

\* One pass of "for generation in range(self.generations)": the fitness
\* of the population, the best chromosome, the average, then either the
\* break of the convergence test (the population is left as it is) or
\* selection and the new population.  When selection raises,
\* self.population is left as population.sort ordered it.
ConvergeGeneration ==
    /\ ga.status = "running"
    /\ ga.generation < ga.generations
    /\ \E assigned \in FitnessLists :
       \E fitness \in {evaluate(ga.population, ga.fitness, assigned)} :
       \E best \in {update_best(ga.best_chromosome,
                                current_best_chromosome(ga.population, fitness),
                                fitness)} :
       \E fitness_history \in
            {Append(ga.fitness_history,
                    total([k \in 1 .. Len(ga.population) |->
                              fitness[ga.population[k]]], 1))} :
       \E s \in IF converged(fitness_history, Len(ga.population))
                THEN {[status |-> "break", selected |-> ga.population]}
                ELSE selection(ga.population, fitness, ga.elitism_count) :
       \E created \in {reproduction(s.selected, ga.population_size)} :
          ga' = [ga EXCEPT
                    !.generation = ga.generation + 1,
                    !.fitness =
                        IF s.status = "ok"
                        THEN fitness \o [k \in 1 .. created |-> 0]
                        ELSE fitness,
                    !.best_chromosome = best,
                    !.fitness_history = fitness_history,
                    !.best_history = Append(ga.best_history, fitness[best]),
                    !.population =
                        IF s.status = "ok"
                        THEN SubSeq(s.selected
                                      \o [k \in 1 .. created |->
                                              Len(fitness) + k],
                                    1, ga.population_size)
                        ELSE IF s.status = "raised"
                        THEN sorted_population(ga.population, fitness)
                        ELSE ga.population,
                    !.status = IF s.status = "ok" THEN "running"
                               ELSE IF s.status = "raised" THEN "raised"
                               ELSE "converged"]
    /\ last' = [op |-> "generation"]
    /\ UNCHANGED <<game, side, turn, pc, tabuleiro, net, sel>>

\* "return self.best_chromosome, self.fitness_history", after the break or
\* after the last generation.
ConvergeReturn ==
    /\ \/ ga.status = "converged"
       \/ ga.status = "running" /\ ga.generation = ga.generations
    /\ ga' = [ga EXCEPT !.status = "returned"]
    /\ last' = [op |-> "return", stopped_early |-> ga.status = "converged"]
    /\ UNCHANGED <<game, side, turn, pc, tabuleiro, net, sel>>

NextConverge == ConvergeGeneration \/ ConvergeReturn

SpecConverge == InitConverge /\ [][NextConverge]_vars

(***************************************************************************)
(* SpecQuick: test_genetic.quick_test and                                  *)
(* ForcedEvolutionVisualizer.forced_evolution around genetic.ga_run and    *)
(* genetic.evaluate_fitness.  A Python module has its own global names:    *)
(* ga.genetic holds MAX_GENERATIONS and GAMES_PER_EVAL of module genetic,  *)
(* which ga_run and evaluate_fitness read; ga.importer holds the names of  *)
(* the same spelling that "from genetic import *" created in the calling   *)
(* module, which its "global" statements rebind.  ga.gen counts the passes *)
(* of the generation loop, ga.games is the number of games per individual  *)
(* of the last evaluate_fitness (0 before the first).                      *)
(***************************************************************************)
MAX_GENERATIONS == 600
GAMES_PER_EVAL == 30
QuickGenerations == 50
QuickGames == 10
MaxForced == 2
ForcedGames == {10, 50}

\* "from genetic import *": the importing module gets names bound to the
\* values of genetic's globals.
import_star(genetic) == genetic

InitQuick ==
    /\ \E entry \in {"quick_test", "forced_evolution"} :
          ga = [status |-> "idle", entry |-> entry,
                genetic |-> [MAX_GENERATIONS |-> MAX_GENERATIONS,
                             GAMES_PER_EVAL |-> GAMES_PER_EVAL],
                importer |-> import_star(
                                [MAX_GENERATIONS |-> MAX_GENERATIONS,
                                 GAMES_PER_EVAL |-> GAMES_PER_EVAL]),
                original |-> [MAX_GENERATIONS |-> 0, GAMES_PER_EVAL |-> 0],
                expected_games |-> 0, num_generations |-> 0,
                gen |-> 0, games |-> 0]
    /\ last = NoCall
    /\ game = reset /\ side = None /\ pc = "idle"
    /\ turn = NN_PLAYER_SYMBOL
    /\ tabuleiro = <<>> /\ net = <<>> /\ sel = NoSel

\* quick_test, lines 164-175, up to the first statements of ga_run
\* (random_population, evaluate_fitness).
QuickTest ==
    /\ ga.status = "idle" /\ ga.entry = "quick_test"
    /\ ga' = [ga EXCEPT
                !.status = "ga_run",
                !.original = ga.importer,
                !.importer = [MAX_GENERATIONS |-> QuickGenerations,
                              GAMES_PER_EVAL |-> QuickGames],
                !.expected_games = QuickGames,
                !.games = ga.genetic.GAMES_PER_EVAL]
    /\ UNCHANGED <<game, last, side, turn, pc, tabuleiro, net, sel>>

\* ga_run, lines 226-242: one pass of "for gen in range(1, MAX_GENERATIONS
\* + 1)"; the pass leaves the loop when the target fitness is reached,
\* otherwise it ends with evaluate_fitness.
GaRunGeneration ==
    /\ ga.status = "ga_run"
    /\ ga.gen < ga.genetic.MAX_GENERATIONS
    /\ \E target_reached_now \in BOOLEAN :
          ga' = [ga EXCEPT
                    !.gen = ga.gen + 1,
                    !.status = IF target_reached_now THEN "finished"
                               ELSE "ga_run",
                    !.games = IF target_reached_now THEN ga.games
                              ELSE ga.genetic.GAMES_PER_EVAL]
    /\ UNCHANGED <<game, last, side, turn, pc, tabuleiro, net, sel>>

\* The range of ga_run's loop is exhausted.
GaRunExhausted ==
    /\ ga.status = "ga_run"
    /\ ga.gen = ga.genetic.MAX_GENERATIONS
    /\ ga' = [ga EXCEPT !.status = "finished"]
    /\ UNCHANGED <<game, last, side, turn, pc, tabuleiro, net, sel>>

\* forced_evolution, lines 102-120: the override of GAMES_PER_EVAL and,
\* "if self.pop is None", the evaluation of a new population; a visualizer
\* that holds a population (load_state, an earlier call) evaluates nothing
\* before the loop.
ForcedEvolution ==
    /\ ga.status = "idle" /\ ga.entry = "forced_evolution"
    /\ \E num_generations \in 1 .. MaxForced, games_per_eval \in ForcedGames,
          pop_is_none \in BOOLEAN :
          ga' = [ga EXCEPT
                    !.status = "forced",
                    !.original = ga.importer,
                    !.importer = [ga.importer EXCEPT
                                    !.GAMES_PER_EVAL = games_per_eval],
                    !.expected_games = games_per_eval,
                    !.num_generations = num_generations,
                    !.games = IF pop_is_none
                              THEN ga.genetic.GAMES_PER_EVAL
                              ELSE ga.games]
    /\ UNCHANGED <<game, last, side, turn, pc, tabuleiro, net, sel>>

\* forced_evolution: one pass of "for i in range(num_generations)", which
\* ends with evaluate_fitness(self.pop), or the end of the loop.
ForcedGeneration ==
    /\ ga.status = "forced"
    /\ ga' = IF ga.gen < ga.num_generations
             THEN [ga EXCEPT !.gen = ga.gen + 1,
                             !.games = ga.genetic.GAMES_PER_EVAL]
             ELSE [ga EXCEPT !.status = "finished"]
    /\ UNCHANGED <<game, last, side, turn, pc, tabuleiro, net, sel>>

\* The finally blocks (test_genetic.py lines 179-182, force_evolution.py
\* lines 174-176): the names of the calling module get their old values.
RestoreGlobals ==
    /\ ga.status = "finished"
    /\ ga' = [ga EXCEPT
                !.status = "returned",
                !.importer =
                    IF ga.entry = "quick_test" THEN ga.original
                    ELSE [ga.importer EXCEPT
                            !.GAMES_PER_EVAL = ga.original.GAMES_PER_EVAL]]
    /\ UNCHANGED <<game, last, side, turn, pc, tabuleiro, net, sel>>

NextQuick ==
    \/ QuickTest
    \/ GaRunGeneration
    \/ GaRunExhausted
    \/ ForcedEvolution
    \/ ForcedGeneration
    \/ RestoreGlobals

SpecQuick == InitQuick /\ [][NextQuick]_vars

(***************************************************************************)
(* Claims about the Board (SpecBoard).                                     *)
(***************************************************************************)
ChangedCells(g1, g2) ==
    {m \in Moves : g1.board[m[1]][m[2]] # g2.board[m[1]][m[2]]}

Occupied(g, move) ==
    move \in Moves /\ g.board[move[1]][move[2]] # EMPTY_CELL

\* C4 (as claimed): make_move(move, symbol) followed by undo_move(move)
\* leaves the Board equal to the state before make_move, cells and cached
\* current_winner alike.  undo_move clears current_winner, so this fails when
\* the move was applied to a board that already had a winner.
C4_UndoRestores ==
    last.op = "undo_move" => game = last.before

\* C6: make_move returns False and changes nothing when the move is None, out
\* of range or names an occupied cell; when it returns True exactly one cell
\* changed, from empty to the symbol.
C6_MakeMoveContract ==
    last.op = "make_move" =>
        /\ (last.move = NoMove \/ last.move \in OutOfRange
                \/ Occupied(last.before, last.move)) => ~last.ok
        /\ ~last.ok => game = last.before
        /\ last.ok =>
              /\ ChangedCells(last.before, game) = {last.move}
              /\ last.before.board[last.move[1]][last.move[2]] = EMPTY_CELL
              /\ game.board[last.move[1]][last.move[2]] = last.symbol

\* A rejected call on an occupied cell of a board that holds marks of both
\* players, after an out-of-range call and an accepted call were possible.
C6_Witness ==
    /\ last.op = "make_move"
    /\ ~last.ok
    /\ Occupied(last.before, last.move)
    /\ \E m \in Moves : game.board[m[1]][m[2]] = OPPONENT_PLAYER_SYMBOL

(***************************************************************************)
(* Claims about MinimaxPlayer (SpecGame, SpecSearch).                      *)
(***************************************************************************)
\* The empty cells in which symbol completes a line.
WinningCells(g, symbol) ==
    {m \in Moves : /\ g.board[m[1]][m[2]] = EMPTY_CELL
                   /\ check_winner(make_move(g, m, symbol).game, symbol)}

HardCall ==
    /\ last.op = "choose_move"
    /\ last.difficulty = "hard"
    /\ ~is_game_over(last.before)

\* The board [X,X,_,_,O,_,O,_,_] of the concrete scenario.
ScenarioBoard ==
    [r \in Idx |-> [c \in Idx |->
        IF <<r, c>> \in {<<0, 0>>, <<0, 1>>} THEN NN_PLAYER_SYMBOL
        ELSE IF <<r, c>> \in {<<1, 1>>, <<2, 0>>} THEN OPPONENT_PLAYER_SYMBOL
        ELSE EMPTY_CELL]]

\* C1: in a game from the empty Board in which one side always plays the
\* move of MinimaxPlayer("hard").choose_move and the other side any legal
\* move, the game never ends with the other side as current_winner, whether
\* the minimax side plays X (first) or O (second).
C1_MinimaxNeverLoses ==
    is_game_over(game) => game.current_winner # OtherPlayer(side)

\* A finished game that the minimax player, moving second, did not win.
C1_Witness ==
    /\ is_game_over(game)
    /\ side = OPPONENT_PLAYER_SYMBOL
    /\ is_draw(game)

\* C2: on a non-terminal position of alternating play in which the side to
\* move has exactly one cell that completes a line, hard choose_move returns
\* that cell; on [X,X,_,_,O,_,O,_,_] with X to move it returns (0,2).
C2_TakesTheWin ==
    HardCall =>
        /\ Cardinality(WinningCells(last.before, last.symbol)) = 1
              => last.position \in WinningCells(last.before, last.symbol)
        /\ (last.before.board = ScenarioBoard
                /\ last.symbol = NN_PLAYER_SYMBOL)
              => last.position = <<0, 2>>

C2_Witness ==
    /\ HardCall
    /\ last.before.board = ScenarioBoard
    /\ last.symbol = NN_PLAYER_SYMBOL
    /\ last.position = <<0, 2>>

\* C3: on a non-terminal position in which the side to move has no winning
\* cell and the opponent has exactly one cell that would complete a line,
\* hard choose_move returns that blocking cell.
C3_BlocksTheThreat ==
    (/\ HardCall
     /\ WinningCells(last.before, last.symbol) = {}
     /\ Cardinality(WinningCells(last.before, OtherPlayer(last.symbol))) = 1)
        => last.position \in WinningCells(last.before, OtherPlayer(last.symbol))

\* A block that is not simply the first empty cell of the board.
C3_Witness ==
    /\ HardCall
    /\ WinningCells(last.before, last.symbol) = {}
    /\ WinningCells(last.before, OtherPlayer(last.symbol)) = {last.position}
    /\ last.position # get_valid_moves(last.before)[1]

\* C5: when choose_move (hard or medium) is called on a Board whose game is
\* not over, on return the nine cells and current_winner are what they were
\* before the call.
C5_SearchRestoresBoard ==
    (last.op = "choose_move" /\ ~is_game_over(last.before))
        => game = last.before

\* The full-depth search from the empty Board has returned.
C5_Witness ==
    /\ last.op = "choose_move"
    /\ last.difficulty = "hard"
    /\ last.before = reset
    /\ last.position # NoMove

\* C7 (as claimed): choose_move returns None only when the board has no
\* empty cell, and returns an empty cell whenever there is one.  On a board
\* already won by the other player the search returns position None although
\* empty cells remain.
C7_NoneOnlyWhenFull ==
    last.op = "choose_move" =>
        /\ last.position = NoMove => get_valid_moves(last.before) = <<>>
        /\ get_valid_moves(last.before) # <<>>
              => is_move_valid(last.before, last.position)

(***************************************************************************)
(* Claims about the network move selection (SpecNet).                      *)
(***************************************************************************)
EmptyCells(cells) == {i \in Cells : cells[i] = 0}

\* i is an empty cell whose score is maximal among the empty cells.
BestEmpty(cells, scores, i) ==
    /\ i \in EmptyCells(cells)
    /\ \A j \in EmptyCells(cells) : scores[j] <= scores[i]

\* C8: on a board with at least one empty cell every selection routine
\* (RedeNeuralMLP.escolher_jogada, Net.policy, alt MLP.choose_move and the
\* sorted-output decision of ga.calculate_fitness) returns an empty cell whose
\* output score is maximal among the empty cells.
C8_SelectsBestEmptyCell ==
    (sel # NoSel /\ EmptyCells(tabuleiro) # {}) =>
        /\ sel.RedeNeuralMLP.kind = "index"
        /\ BestEmpty(tabuleiro, propagacao(tabuleiro, net),
                     sel.RedeNeuralMLP.value)
        /\ sel.Net.kind = "index"
        /\ BestEmpty(tabuleiro, propagacao(tabuleiro, net), sel.Net.value)
        /\ sel.MLP.kind = "index"
        /\ BestEmpty(tabuleiro, feedforward(tabuleiro, net), sel.MLP.value)
        /\ sel.ga[1] \in Idx /\ sel.ga[2] \in Idx
        /\ BestEmpty(tabuleiro, feedforward(tabuleiro, net),
                     3 * sel.ga[1] + sel.ga[2])

\* The cell with the greatest raw score is occupied and the routines have
\* returned another cell.
C8_Witness ==
    /\ sel # NoSel
    /\ EmptyCells(tabuleiro) # {}
    /\ tabuleiro[argmax(propagacao(tabuleiro, net))] # 0
    /\ sel.RedeNeuralMLP.value # argmax(propagacao(tabuleiro, net))
    /\ sel.RedeNeuralMLP.value = sel.MLP.value

\* C9 (as claimed): on a board without an empty cell the selection returns
\* the "no move" value, for RedeNeuralMLP.escolher_jogada, Net.policy and alt
\* MLP.choose_move alike.  escolher_jogada returns cell 0 and Net.policy
\* raises IndexError.
C9_NoneOnFullBoard ==
    (sel # NoSel /\ EmptyCells(tabuleiro) = {}) =>
        /\ sel.RedeNeuralMLP = NoneResult
        /\ sel.Net = NoneResult
        /\ sel.MLP = NoneResult

(***************************************************************************)
(* Claims about GeneticAlgorithm (SpecGA).                                 *)
(***************************************************************************)
\* C10: after the constructor and after every completed call of evolve,
\* len(self.population) equals population_size, over any number of
\* successive generations.
C10_PopulationSizeConstant ==
    ga.status \in {"constructed", "evolved"}
        => Len(ga.population) = ga.population_size

\* A completed evolve on a population of even size, whose last pass of the
\* loop appends one child only.
C10_Witness ==
    /\ ga.status = "evolved"
    /\ ga.population_size = tournament_size + 1
    /\ \E i \in 2 .. Len(ga.population) : ga.population[i] # ga.population[1]

(***************************************************************************)
(* Claims about the alt GeneticAlgorithm (SpecAlt).                        *)
(***************************************************************************)
AltRecord == "tamanho_populacao" \in DOMAIN ga

\* C11 (as claimed): in every generation of run_ga, with elitismo enabled or
\* disabled, the population holds exactly tamanho_populacao individuals
\* (get_num_individuos() = get_tam_populacao()).  With elitismo the elite is
\* appended before the loop appends tamanho_populacao children.
C11_AltPopulationSize ==
    (AltRecord /\ ga.status # "none")
        => Len(ga.individuos) = ga.tamanho_populacao

\* C19 (as claimed): at the end of every generation each individual of the
\* population carries an aptidao computed against the difficulty in force
\* for that generation.  The elite and the parents copied without crossover
\* keep the aptidao of an earlier generation.
C19_FitnessOfCurrentDifficulty ==
    (AltRecord /\ ga.status = "running") =>
        \A k \in 1 .. Len(ga.individuos) :
            ga.objetos[ga.individuos[k]].dificuldade = ga.dificuldade_geracao

(***************************************************************************)
(* Claims about _calculate_fitness (SpecFitness).                          *)
(***************************************************************************)
FitnessCall == last.op = "calculate_fitness"

\* C15: as soon as the network's move is not valid (occupied, out of range
\* or None) the simulated game stops: the loop is left with the Board as it
\* was, the network is not asked again, exactly one invalid_* tag has been
\* added and the returned result is "invalid".
C15_InvalidMoveStopsGame ==
    (FitnessCall /\ last.invalid) =>
        /\ pc \in {"end", "returned"}
        /\ game = last.before
        /\ last.move_tags["invalid_other_pos"]
              + last.move_tags["invalid_own_pos"] = 1
        /\ pc = "returned" => last.result = "invalid"

\* The call has returned "invalid" after the network, having played two
\* valid moves, chose a cell that holds its own mark.
C15_Witness ==
    /\ FitnessCall
    /\ pc = "returned"
    /\ last.invalid
    /\ last.asked = 3
    /\ last.move_tags["invalid_own_pos"] = 1
    /\ last.result = "invalid"

(***************************************************************************)
(* Claims about the training loop (SpecTrain).                             *)
(***************************************************************************)
\* C12: the best fitness evolve computes in generation N+1 is never lower
\* than the best fitness it computed in generation N, whatever the
\* difficulty of the opponent.
C12_BestFitnessMonotone ==
    (last.op = "train" /\ last.generation >= 2)
        => last.best_fitness >= last.previous_best

(***************************************************************************)
(* Claims about the Board without undo (SpecMoves).                        *)
(***************************************************************************)
ThreeInLine == {{<<0, 0>>, <<0, 1>>, <<0, 2>>}, {<<1, 0>>, <<1, 1>>, <<1, 2>>},
                {<<2, 0>>, <<2, 1>>, <<2, 2>>}, {<<0, 0>>, <<1, 0>>, <<2, 0>>},
                {<<0, 1>>, <<1, 1>>, <<2, 1>>}, {<<0, 2>>, <<1, 2>>, <<2, 2>>},
                {<<0, 0>>, <<1, 1>>, <<2, 2>>}, {<<0, 2>>, <<1, 1>>, <<2, 0>>}}

OwnsLine(g, symbol) ==
    \E line \in ThreeInLine : \A m \in line : g.board[m[1]][m[2]] = symbol

SomeLine(g) == \E symbol \in Symbols : OwnsLine(g, symbol)

BoardFull(g) == \A r \in Idx, c \in Idx : g.board[r][c] # EMPTY_CELL

\* C18: after reset() and make_move calls only, current_winner is not None
\* exactly when some row, column or diagonal holds three equal marks, the
\* symbol in current_winner owns such a line, and is_draw() is true exactly
\* when there is no such line and no empty cell.
C18_WinnerAndDrawDetection ==
    last.op \in {"none", "place", "reset"} =>
        /\ (game.current_winner # None) <=> SomeLine(game)
        /\ game.current_winner # None => OwnsLine(game, game.current_winner)
        /\ is_draw(game) <=> (~SomeLine(game) /\ BoardFull(game))

\* The last make_move completed the anti-diagonal for O on a Board where X
\* owns no line.
C18_Witness ==
    /\ last.op = "place" /\ last.ok /\ last.symbol = OPPONENT_PLAYER_SYMBOL
    /\ game.current_winner = OPPONENT_PLAYER_SYMBOL
    /\ \A i \in Idx : game.board[i][2 - i] = OPPONENT_PLAYER_SYMBOL
    /\ ~OwnsLine(game, NN_PLAYER_SYMBOL)

(***************************************************************************)
(* Claims about elitism and degenerate configurations (SpecElite).         *)
(***************************************************************************)
\* C13: after evolve with elitism_count = k <= population_size, the new
\* population contains the k best chromosomes of the ranked population,
\* each with every weight unchanged.
C13_TopKSurvive ==
    (/\ last.op = "evolve"
     /\ ga.status = "evolved"
     /\ ga.elitism_count <= ga.population_size)
        => \A i \in 1 .. Len(last.top) :
              \E j \in 1 .. Len(ga.population) :
                  ga.population[j] = last.top[i]

\* C16: evolve never fails part-way through a generation on an object the
\* constructor has built: no call of evolve raises after it has performed
\* fitness evaluations.
C16_NoFailureAfterEvaluation ==
    last.op = "evolve" => ~(ga.status = "raised" /\ last.evaluated > 0)

(***************************************************************************)
(* Claims about genetic.ga_run (SpecGenetic).                              *)
(***************************************************************************)
\* C14: the ELITE_SIZE best individuals survive untouched: when the next
\* population is evaluated its first ELITE_SIZE rows hold the weights of
\* the ELITE_SIZE best rows of the sorted current population.
C14_ElitesUntouched ==
    last.op = "generation" =>
        \A i \in 1 .. EliteRows : ga.pop[i].w = last.elite[i]

(***************************************************************************)
(* Claims about the weight decoders (SpecDecode).                          *)
(***************************************************************************)
\* C17: every decoder rejects a vector whose length is not 180 at decode
\* time and leaves no network holding partially assigned weights: the call
\* raises and the object, if there was one, keeps the weights it had.
C17_RejectsWrongLength ==
    (last.op = "decode" /\ last.length # TotalWeights)
        => /\ last.status = "raised"
           /\ net = last.before

(***************************************************************************)
(* Claims about the convergence test of ga.py (SpecConverge).              *)
(***************************************************************************)
\* C20: evolve stops before its generation budget only when the best
\* fitness (self.best_chromosome.fitness, logged generation by generation
\* in ga.best_history) has not improved by more than the threshold over the
\* trailing window of generations.
C20_StopsOnlyWithoutImprovement ==
    ("status" \in DOMAIN ga /\ ga.status = "converged") =>
        LET window == trailing(ga.best_history)
        IN  window[Len(window)] - window[1] <= ConvergenceThreshold

(***************************************************************************)
(* Further claims about _calculate_fitness (SpecFitness).                  *)
(***************************************************************************)
Marks(g, symbol) ==
    Cardinality({m \in Moves : g.board[m[1]][m[2]] = symbol})

\* C30: every simulated game terminates: the network moves first, the marks
\* alternate X, O, X, ... (count(X) - count(O) is 0 when the network is to
\* move and 1 when the opponent is), at most 9 marks are written, the
\* network is asked at most 5 times, and the call returns exactly one of
\* win, loss, draw, invalid, the one that the final Board shows.
C30_GamesTerminateAndAlternate ==
    FitnessCall =>
        /\ Marks(game, NN_PLAYER_SYMBOL) - Marks(game, OPPONENT_PLAYER_SYMBOL)
              \in {0, 1}
        /\ pc = "nn" => Marks(game, NN_PLAYER_SYMBOL)
                            = Marks(game, OPPONENT_PLAYER_SYMBOL)
        /\ pc = "minimax" => Marks(game, NN_PLAYER_SYMBOL)
                                = Marks(game, OPPONENT_PLAYER_SYMBOL) + 1
        /\ Marks(game, NN_PLAYER_SYMBOL)
              + Marks(game, OPPONENT_PLAYER_SYMBOL) <= 9
        /\ last.asked <= 5
        /\ last.asked \in {Marks(game, NN_PLAYER_SYMBOL),
                           Marks(game, NN_PLAYER_SYMBOL) + 1}
        /\ pc = "returned" =>
              /\ last.result \in {"win", "loss", "draw", "invalid"}
              /\ last.result = "win" <=> OwnsLine(game, NN_PLAYER_SYMBOL)
              /\ last.result = "loss" <=> OwnsLine(game, OPPONENT_PLAYER_SYMBOL)
              /\ last.result = "draw" <=> (~SomeLine(game) /\ BoardFull(game))
              /\ last.result = "invalid" <=> last.invalid

\* A game of nine marks that returned "draw" after five network moves.
C30_Witness ==
    /\ FitnessCall
    /\ pc = "returned"
    /\ last.result = "draw"
    /\ last.asked = 5
    /\ Marks(game, NN_PLAYER_SYMBOL) = 5
    /\ Marks(game, OPPONENT_PLAYER_SYMBOL) = 4

\* A game with given moves: the network plays nn_moves in turn, the medium
\* opponent the valid move of index picks[i] (its random choice).
RECURSIVE reference_game(_, _, _)
reference_game(st, nn_moves, picks) ==
    IF st.pc = "end" \/ nn_moves = <<>>
    THEN st
    ELSE LET after_nn == nn_turn(st, Head(nn_moves))
         IN  IF after_nn.pc = "end"
             THEN after_nn
             ELSE reference_game(
                    minimax_turn(after_nn,
                        choose_move(after_nn.board, OPPONENT_PLAYER_SYMBOL,
                                    "medium", FALSE, Head(picks))),
                    Tail(nn_moves), Tail(picks))

\* The drawn game X(0,0) O(1,1) X(2,2) O(0,1) X(2,1) O(2,0) X(0,2) O(1,2)
\* X(1,0).
DrawnGame ==
    reference_game([board |-> reset, move_tags |-> NoTags, pc |-> "nn"],
                   << <<0, 0>>, <<2, 2>>, <<2, 1>>, <<0, 2>>, <<1, 0>> >>,
                   <<4, 1, 4, 2>>)

\* C24: the fitness orders the outcomes of all simulated games: a won game
\* scores strictly higher than a drawn game, a drawn game strictly higher
\* than a lost game, a lost game strictly higher than a game ended by an
\* invalid move.  Stated for every game against the drawn game DrawnGame.
C24_OutcomeOrdering ==
    (/\ FitnessCall
     /\ pc = "returned"
     /\ game_result(DrawnGame) = "draw")
        => /\ last.result = "win"
                => last.fitness > fitness_of(final_tags(DrawnGame))
           /\ last.result \in {"loss", "invalid"}
                => last.fitness < fitness_of(final_tags(DrawnGame))

\* C25: a network move into an empty cell in which the opponent would
\* complete a line on its next turn gets the "defensive" tag: once the
\* network has made such a move, move_tags holds "defensive".
C25_BlockingMoveIsDefensive ==
    (/\ FitnessCall
     /\ pc \in {"minimax", "end"}
     /\ ~last.invalid
     /\ \E m \in WinningCells(last.before, OPPONENT_PLAYER_SYMBOL) :
            game.board[m[1]][m[2]] = NN_PLAYER_SYMBOL)
        => last.move_tags["defensive"] >= 1

(***************************************************************************)
(* Further claims about MinimaxPlayer (SpecSearch).                        *)
(***************************************************************************)
\* The score of the move m for X on the Board g: the score of the search
\* for O on the Board after the move.
move_score(g, m) ==
    minimax(make_move(g, m, NN_PLAYER_SYMBOL).game, OPPONENT_PLAYER_SYMBOL).score

\* C22: minimax on the empty Board with X to move returns score 0, and
\* choose_move in hard mode returns the first cell in row-major order among
\* the moves of that optimal score.
C22_EmptyBoardScoreAndTieBreak ==
    (/\ HardCall
     /\ last.before = reset
     /\ last.symbol = NN_PLAYER_SYMBOL)
        => \A r \in {minimax(reset, NN_PLAYER_SYMBOL)} :
           \A scores \in {[k \in 1 .. 9 |-> move_score(reset, RowMajor[k])]} :
              /\ r.score = 0
              /\ last.position = r.position
              /\ \A k \in 1 .. 9 : scores[k] <= 0
              /\ \E k \in 1 .. 9 :
                    /\ last.position = RowMajor[k]
                    /\ scores[k] = 0
                    /\ \A j \in 1 .. k - 1 : scores[j] < 0

\* choose_move in hard mode was called for X on the empty Board and
\* returned the first cell.
C22_Witness ==
    /\ HardCall
    /\ last.before = reset
    /\ last.symbol = NN_PLAYER_SYMBOL
    /\ last.position = <<0, 0>>

(***************************************************************************)
(* Further claims about the alt GeneticAlgorithm (SpecAlt).                *)
(***************************************************************************)
NovaGeracaoCall == AltRecord /\ sel.op = "nova_geracao" /\ sel.status = "ok"

\* C27: nova_geracao with elitismo keeps the best individual of the old
\* population in the new population with its weights and its fitness
\* unchanged, and changes no weight and no fitness of any individual of the
\* old population.
C27_EliteAndOldPopulationUnchanged ==
    (NovaGeracaoCall /\ ga.elitismo) =>
        /\ \A k \in 1 .. Len(sel.antes) :
              /\ sel.depois[k].pesos = sel.antes[k].pesos
              /\ sel.depois[k].aptidao = sel.antes[k].aptidao
        /\ \E k \in 1 .. Len(ga.individuos) :
              /\ ga.objetos[ga.individuos[k]].pesos
                    = sel.antes[sel.populacao[1]].pesos
              /\ ga.objetos[ga.individuos[k]].aptidao
                    = sel.antes[sel.populacao[1]].aptidao

(***************************************************************************)
(* Claims about the alt selecao_torneio (SpecTorneio).                     *)
(***************************************************************************)
\* C29: selecao_torneio terminates, under fair random draws, and returns a
\* member of the population, for every tamanho_populacao >= 2, every
\* generation number and every numero_maximo_geracoes: every call
\* eventually returns an individual of the population.
C29_TorneioTerminates ==
    <>(/\ sel.op = "selecao_torneio"
       /\ sel.pc = "returned"
       /\ sel.indice \in 0 .. sel.tamanho_populacao - 1)

(***************************************************************************)
(* Claims about the alt Minimax in jogar_partida (SpecPartida).            *)
(***************************************************************************)
\* The free cells in which the mark completes a line on the board tab.
CelulasDeVitoria(tab, marca) ==
    {i \in livres(tab) :
        alt_verificar_vencedor([tab EXCEPT ![i] = marca]) = marca}

\* C26: Minimax("dificil").choose_move on the board of a JogoDaVelha, where
\* the minimax side plays -1 and the network 1, returns a winning cell when
\* the minimax side has one, and otherwise a cell that blocks the network
\* when the network threatens to complete a line.
C26_AltMinimaxWinsOrBlocks ==
    (last.op = "alt_choose_move" /\ last.mode = "dificil") =>
        IF CelulasDeVitoria(last.antes, -1) # {}
        THEN last.jogada \in CelulasDeVitoria(last.antes, -1)
        ELSE CelulasDeVitoria(last.antes, 1) # {}
                => last.jogada \in CelulasDeVitoria(last.antes, 1)

(***************************************************************************)
(* Claims about evolve of ga.py (SpecRun).                                 *)
(***************************************************************************)
RunCall == "elitism_count" \in DOMAIN ga /\ last.op = "generation"

\* C21: whenever elitism_count < population_size, every generation that
\* does not end the run builds the next population from the elites plus
\* offspring: the reproduction loop runs and adds at least one newly
\* created Chromosome.
C21_OffspringEveryGeneration ==
    (/\ RunCall
     /\ ga.status \in {"running", "returned"}
     /\ ga.elitism_count < ga.population_size)
        => last.created >= 1

\* C28: the fitness held by self.best_chromosome never decreases from one
\* generation to the next, and when evolve returns it is the highest
\* fitness any chromosome was assigned in any generation.
C28_BestFitnessNeverDecreases ==
    RunCall =>
        /\ last.had_best => last.best_after >= last.best_before
        /\ ga.status = "returned"
              => ga.fitness[ga.best_chromosome] = last.max_assigned

(***************************************************************************)
(* Claims about the parameter overrides (SpecQuick).                       *)
(***************************************************************************)
\* C23: while quick_test or forced_evolution is running, the GA uses the
\* reduced parameters: ga_run executes at most 50 generations under
\* quick_test and evaluate_fitness plays the overridden number of games per
\* individual (10 under quick_test, games_per_eval under forced_evolution)
\* in every evaluation it makes; after the call the original values are in
\* force again.
C23_OverridesInForce ==
    "importer" \in DOMAIN ga =>
        /\ ga.status \in {"ga_run", "forced", "finished"}
              => /\ ga.games # 0 => ga.games = ga.expected_games
                 /\ ga.entry = "quick_test" => ga.gen <= QuickGenerations
        /\ ga.status = "returned"
              => /\ ga.importer.MAX_GENERATIONS = MAX_GENERATIONS
                 /\ ga.importer.GAMES_PER_EVAL = GAMES_PER_EVAL

====
